---------------------------- MODULE Spec2Model ----------------------------
(***************************************************************************)
(* Model of the Wildlife Insights processing pipeline                      *)
(* (3_processing_pipeline): the subproject-code validator, the date        *)
(* consistency filter, the timestamp normaliser, the geographic            *)
(* jurisdiction assigner, the table export and the orchestrator main().    *)
(*                                                                         *)
(* Strings are sequences of one-character tokens.  The token "sup2" stands *)
(* for U+00B2 (superscript two): str.isdigit() is True for it, int()       *)
(* raises ValueError on it.  Python index i is TLA+ index i+1.             *)
(***************************************************************************)
EXTENDS Integers, Sequences, FiniteSets, TLC

VARIABLES
    subproject_name,   \* argument handed to validar_subproject_name
    es_valido,         \* values it has returned: <<>> before the call, then <<bool>>
    images,            \* the images DataFrame handed to / returned by procesar_timestamps
    consola,           \* what the functions have printed
    data,              \* the DataFrame handed to / returned by the filters
    data_previas,      \* the earlier values of data, oldest first
    deployments,       \* the deployments reference table
    shapefile,         \* the jurisdiction polygon dataset on disk
    project_corporaciones, \* tables returned by asignar_corporacion_geografica:
                           \* <<>> before the call, then <<table>>
    projects,          \* the projects reference table
    entorno,           \* what the run finds on disk: which reads and writes fail
    resultado,         \* values returned by generar_todas_las_tablas: <<>>, then <<dict>>
    parquets,          \* the tables written in the output directory, by name
    pc,                \* the step main() is about to execute
    etapas,            \* the steps main() has executed, oldest first
    retorno,           \* values returned by main(): <<>>, then <<bool>>
    exit_status        \* exit status of the process: <<>>, then <<integer>>

varsValidar == <<subproject_name, es_valido>>
varsTimestamps == <<images, consola>>
varsFechas == <<data, data_previas>>
varsGeo == <<deployments, shapefile, project_corporaciones>>
varsExport == <<projects, entorno, resultado, parquets>>
varsMain == <<pc, etapas, retorno, exit_status>>

vars == <<varsValidar, varsTimestamps, varsFechas, varsGeo, varsExport, varsMain>>

-----------------------------------------------------------------------------
(* Bounds *)

MaxLen == 6    \* longest enumerated code body (without surrounding blanks)
MaxPad == 1    \* most blanks put before / after an enumerated body
MaxTs == 3     \* most rows of the images table of the timestamp normaliser
MaxRows == 2   \* most rows of the table handed to the date filter
MaxFiltros == 2  \* most successive applications of the date filter
MaxDeps == 4   \* most rows of the deployments table

-----------------------------------------------------------------------------
(* Characters and Python string primitives *)

AsciiDigits == {"0", "1", "2", "3", "4", "5", "6", "7", "8", "9"}

\* characters for which str.isdigit() is True
DigitChars == AsciiDigits \cup {"sup2"}

Whitespace == {" "}

DigitVal(c) ==
    CASE c = "0" -> 0 [] c = "1" -> 1 [] c = "2" -> 2 [] c = "3" -> 3
      [] c = "4" -> 4 [] c = "5" -> 5 [] c = "6" -> 6 [] c = "7" -> 7
      [] c = "8" -> 8 [] c = "9" -> 9

RECURSIVE lstrip(_)
lstrip(s) ==
    IF s # <<>> /\ Head(s) \in Whitespace THEN lstrip(Tail(s)) ELSE s

RECURSIVE rstrip(_)
rstrip(s) ==
    IF s # <<>> /\ s[Len(s)] \in Whitespace
    THEN rstrip(SubSeq(s, 1, Len(s) - 1)) ELSE s

\* str.strip()
strip(s) == rstrip(lstrip(s))

\* str.split(sep) for a one-character separator
RECURSIVE split(_, _)
split(s, sep) ==
    IF \E i \in 1..Len(s) : s[i] = sep
    THEN LET i == CHOOSE k \in 1..Len(s) :
                      s[k] = sep /\ \A j \in 1..(k - 1) : s[j] # sep
         IN  <<SubSeq(s, 1, i - 1)>> \o split(SubSeq(s, i + 1, Len(s)), sep)
    ELSE <<s>>

\* str.isdigit(): non-empty and every character is a digit character
isdigit(s) == s # <<>> /\ \A i \in 1..Len(s) : s[i] \in DigitChars

\* int(s) succeeds on the strings that reach it only when all are ASCII digits
int_ok(s) == s # <<>> /\ \A i \in 1..Len(s) : s[i] \in AsciiDigits

RECURSIVE int(_)
int(s) ==
    IF s = <<>> THEN 0
    ELSE 10 * int(SubSeq(s, 1, Len(s) - 1)) + DigitVal(s[Len(s)])

-----------------------------------------------------------------------------
(* Cell values *)

None == [t |-> "None"]
NaN  == [t |-> "NaN"]
Str(s) == [t |-> "str", s |-> s]

\* pd.isna on a scalar
pd_isna(v) == v.t \in {"None", "NaN", "NaT"}

\* str(v)
str(v) ==
    CASE v.t = "str"  -> v.s
      [] v.t = "None" -> <<"N", "o", "n", "e">>
      [] v.t = "NaN"  -> <<"n", "a", "n">>
      [] v.t = "NaT"  -> <<"N", "a", "T">>

-----------------------------------------------------------------------------
(* DataFrames: ordered column labels (duplicates allowed), one dtype per    *)
(* column, the index labels of the rows and one tuple of cells per row.     *)

EmptyFrame == [columns |-> <<>>, dtypes |-> <<>>, index |-> <<>>, rows |-> <<>>]

NaT == [t |-> "NaT"]
\* a timestamp; the model tracks its calendar date, not its time of day
Dt(y, m, d) == [t |-> "dt", year |-> y, month |-> m, day |-> d]
\* a number, held in thousandths so that parsed decimals stay exact
Num(milli) == [t |-> "num", milli |-> milli]

HasColumn(df, name) == \E j \in 1..Len(df.columns) : df.columns[j] = name

\* position of the first column carrying the label
ColPos(df, name) ==
    CHOOSE j \in 1..Len(df.columns) :
        df.columns[j] = name /\ \A k \in 1..(j - 1) : df.columns[k] # name

Column(df, name) == [i \in 1..Len(df.rows) |-> df.rows[i][ColPos(df, name)]]

\* Index.duplicated(): True for every occurrence of a label after its first
columns_duplicated(df) ==
    [j \in 1..Len(df.columns) |-> \E k \in 1..(j - 1) : df.columns[k] = df.columns[j]]

RECURSIVE SelectSeq2(_, _)
\* the elements of seq whose position is in keep, in order
SelectSeq2(seq, keep) ==
    IF seq = <<>> THEN <<>>
    ELSE SelectSeq2(SubSeq(seq, 1, Len(seq) - 1), keep)
           \o (IF Len(seq) \in keep THEN <<seq[Len(seq)]>> ELSE <<>>)

\* df.loc[:, mask]
SelectColumns(df, keep) ==
    [columns |-> SelectSeq2(df.columns, keep),
     dtypes  |-> SelectSeq2(df.dtypes, keep),
     index   |-> df.index,
     rows    |-> [i \in 1..Len(df.rows) |-> SelectSeq2(df.rows[i], keep)]]

\* df[mask]
SelectRows(df, keep) ==
    [columns |-> df.columns,
     dtypes  |-> df.dtypes,
     index   |-> SelectSeq2(df.index, keep),
     rows    |-> SelectSeq2(df.rows, keep)]

\* df[name] = values, dtype given: replaces the column or appends a new one
SetColumn(df, name, values, dtype) ==
    IF HasColumn(df, name)
    THEN [df EXCEPT !.dtypes[ColPos(df, name)] = dtype,
                    !.rows = [i \in 1..Len(df.rows) |->
                                [df.rows[i] EXCEPT ![ColPos(df, name)] = values[i]]]]
    ELSE [df EXCEPT !.columns = Append(df.columns, name),
                    !.dtypes = Append(df.dtypes, dtype),
                    !.rows = [i \in 1..Len(df.rows) |-> Append(df.rows[i], values[i])]]

-----------------------------------------------------------------------------
(* TimestampNormalizer *)

\* A raw timestamp string is described by its layout and its numeric date
\* fields: f1, f2 are month and day in the layouts that start with the year
\* and the first and second field in the slash layouts "x/x/Y ...".
RawTs(layout, f1, f2, y) ==
    [t |-> "tstr", layout |-> layout, f1 |-> f1, f2 |-> f2, year |-> y]

Garbage == [t |-> "tstr", layout |-> "garbage", f1 |-> 0, f2 |-> 0, year |-> 0]

formatos_fecha ==
    << [layout |-> "Y-M-D H:M:S",   orden |-> "Ymd"],
       [layout |-> "Y-M-D H:M:S.f", orden |-> "Ymd"],
       [layout |-> "x/x/Y H:M",     orden |-> "mdY"],
       [layout |-> "x/x/Y H:M:S",   orden |-> "dmY"],
       [layout |-> "x/x/Y H:M",     orden |-> "dmY"],
       [layout |-> "Y/M/D H:M:S",   orden |-> "Ymd"],
       [layout |-> "Y-M-DTH:M:S",   orden |-> "Ymd"],
       [layout |-> "Y-M-DTH:M:S.f", orden |-> "Ymd"],
       [layout |-> "Y-M-DTH:M:SZ",  orden |-> "Ymd"] >>

\* pd.to_datetime(value, format=formato, errors='coerce') on one entry
strptime(v, formato) ==
    IF v.t # "tstr" THEN NaT
    ELSE IF v.layout # formato.layout THEN NaT
    ELSE LET month == IF formato.orden = "dmY" THEN v.f2 ELSE v.f1
             day   == IF formato.orden = "dmY" THEN v.f1 ELSE v.f2
         IN  IF month \in 1..12 /\ day \in 1..31
             THEN Dt(v.year, month, day) ELSE NaT

to_datetime_format(col, formato) ==
    [i \in 1..Len(col) |-> strptime(col[i], formato)]

notna_sum(col) == Cardinality({i \in 1..Len(col) : ~pd_isna(col[i])})

Ninguno == [layout |-> "ninguno", orden |-> "ninguno"]

\* the format the permissive parser guesses from one string (dayfirst=False),
\* Ninguno when it recognises nothing
guess_datetime_format(v) ==
    IF v.t # "tstr" \/ v.layout = "garbage" THEN Ninguno
    ELSE IF v.layout \in {"x/x/Y H:M", "x/x/Y H:M:S"}
    THEN IF v.f1 \in 1..12 /\ v.f2 \in 1..31
         THEN [layout |-> v.layout, orden |-> "mdY"]
         ELSE IF v.f2 \in 1..12 /\ v.f1 \in 1..31
         THEN [layout |-> v.layout, orden |-> "dmY"]
         ELSE Ninguno
    ELSE IF v.f1 \in 1..12 /\ v.f2 \in 1..31
    THEN [layout |-> v.layout, orden |-> "Ymd"]
    ELSE Ninguno

\* pd.to_datetime(col, errors='coerce') without a format: the format is
\* guessed from the first non-null entry and applied to the whole column;
\* when nothing can be guessed each entry is parsed on its own.
to_datetime_auto(col) ==
    LET no_nulos == {i \in 1..Len(col) : ~pd_isna(col[i])}
        guessed  == IF no_nulos = {} THEN Ninguno
                    ELSE guess_datetime_format(
                           col[CHOOSE i \in no_nulos : \A j \in no_nulos : i <= j])
    IN  [i \in 1..Len(col) |->
           IF col[i].t = "dt" THEN col[i]
           ELSE IF guessed # Ninguno THEN strptime(col[i], guessed)
           ELSE strptime(col[i], guess_datetime_format(col[i]))]

\* mutant: every entry falls back on its own to the first format reading it
bucle_formatos_por_fila(col, k) ==
    LET lee(i) == {j \in k..Len(formatos_fecha) : strptime(col[i], formatos_fecha[j]) # NaT}
        primero(S) == CHOOSE j \in S : \A m \in S : j <= m
        todos == UNION {lee(i) : i \in 1..Len(col)}
    IN  [timestamp_parsed |->
           [i \in 1..Len(col) |->
              IF lee(i) = {} THEN NaT
              ELSE strptime(col[i], formatos_fecha[primero(lee(i))])],
         formato_exitoso |-> IF todos = {} THEN 0 ELSE primero(todos)]

\* the loop of lines 155-165: the first format with a valid record wins
RECURSIVE bucle_formatos(_, _)
bucle_formatos(col, k) ==
    LET timestamp_parsed == to_datetime_format(col, formatos_fecha[k])
        registros_validos == notna_sum(timestamp_parsed)
    IN  IF registros_validos > 0
        THEN [timestamp_parsed |-> timestamp_parsed, formato_exitoso |-> k]
        ELSE IF k = Len(formatos_fecha)
        THEN [timestamp_parsed |-> timestamp_parsed, formato_exitoso |-> 0]
        ELSE bucle_formatos(col, k + 1)

\* mutant: only the "is None" half of the test of line 168
usar_conversion_automatica_solo_none(bucle) == FALSE

\* line 168: no format left a valid record
usar_conversion_automatica(bucle) == notna_sum(bucle.timestamp_parsed) = 0

dt_year(col) ==
    [i \in 1..Len(col) |-> IF pd_isna(col[i]) THEN NaN ELSE Num(1000 * col[i].year)]
dt_month(col) ==
    [i \in 1..Len(col) |-> IF pd_isna(col[i]) THEN NaN ELSE Num(1000 * col[i].month)]
dt_day(col) ==
    [i \in 1..Len(col) |-> IF pd_isna(col[i]) THEN NaN ELSE Num(1000 * col[i].day)]

\* what procesar_timestamps returns and prints; the derived columns hour and
\* minute are not represented (the model does not track the time of day)
procesar_timestamps(df, columna) ==
    IF ~HasColumn(df, columna)
    THEN [df |-> df, impreso |-> <<[msg |-> "columna_no_encontrada"]>>]
    ELSE
      LET bucle == bucle_formatos(Column(df, columna), 1)
          auto  == usar_conversion_automatica(bucle)
          timestamp_parsed ==
              IF auto THEN to_datetime_auto(Column(df, columna))
              ELSE bucle.timestamp_parsed
          df1 == SetColumn(df, "timestamp_parsed", timestamp_parsed, "datetime64")
          df2 == SetColumn(df1, "photo_datetime", timestamp_parsed, "datetime64")
          df3 == SetColumn(df2, "photo_date", timestamp_parsed, "object")
          num   == IF notna_sum(timestamp_parsed) = Len(timestamp_parsed)
                   THEN "int32" ELSE "float64"
          df4 == SetColumn(df3, "year", dt_year(timestamp_parsed), num)
          df5 == SetColumn(df4, "month", dt_month(timestamp_parsed), num)
          df6 == SetColumn(df5, "day", dt_day(timestamp_parsed), num)
      IN  [df |-> df6,
           impreso |-> << IF auto THEN [msg |-> "conversion_automatica"]
                          ELSE [msg |-> "formato_detectado",
                                formato |-> bucle.formato_exitoso] >>]

-----------------------------------------------------------------------------
(* SubprojectNameValidator *)

MIN_YEAR == 2020

validar_subproject_name_sin_anio(v) ==
    IF pd_isna(v) THEN FALSE
    ELSE LET subproject_str == strip(str(v)) IN
      IF Len(subproject_str) # 6 THEN FALSE
      ELSE IF subproject_str = <<"n", "a", "n">> \/ subproject_str = <<>>
      THEN FALSE
      ELSE IF subproject_str[5] # "_" THEN FALSE
      ELSE LET partes == split(subproject_str, "_") IN
        IF Len(partes) # 2 THEN FALSE
        ELSE LET year_str == partes[1]
                 num_str  == partes[2]
             IN
          IF Len(year_str) # 4 \/ ~isdigit(year_str) THEN FALSE
          ELSE IF Len(num_str) # 1 \/ ~isdigit(num_str) THEN FALSE
          ELSE IF ~int_ok(year_str) THEN FALSE
          ELSE TRUE

validar_subproject_name_sin_num(v) ==
    IF pd_isna(v) THEN FALSE
    ELSE LET subproject_str == strip(str(v)) IN
      IF Len(subproject_str) # 6 THEN FALSE
      ELSE IF subproject_str = <<"n", "a", "n">> \/ subproject_str = <<>>
      THEN FALSE
      ELSE IF subproject_str[5] # "_" THEN FALSE
      ELSE LET partes == split(subproject_str, "_") IN
        IF Len(partes) # 2 THEN FALSE
        ELSE LET year_str == partes[1]
                 num_str  == partes[2]
             IN
          IF Len(year_str) # 4 \/ ~isdigit(year_str) THEN FALSE
          ELSE IF ~int_ok(year_str) THEN FALSE
          ELSE IF int(year_str) < MIN_YEAR THEN FALSE
          ELSE TRUE

validar_subproject_name(v) ==
    IF pd_isna(v) THEN FALSE
    ELSE LET subproject_str == strip(str(v)) IN
      IF Len(subproject_str) # 6 THEN FALSE
      ELSE IF subproject_str = <<"n", "a", "n">> \/ subproject_str = <<>>
      THEN FALSE
      ELSE IF subproject_str[5] # "_" THEN FALSE
      ELSE LET partes == split(subproject_str, "_") IN
        IF Len(partes) # 2 THEN FALSE
        ELSE LET year_str == partes[1]
                 num_str  == partes[2]
             IN
          IF Len(year_str) # 4 \/ ~isdigit(year_str) THEN FALSE
          ELSE IF Len(num_str) # 1 \/ ~isdigit(num_str) THEN FALSE
          ELSE IF ~int_ok(year_str) THEN FALSE      \* ValueError caught
          ELSE IF int(year_str) < MIN_YEAR THEN FALSE
          ELSE TRUE

-----------------------------------------------------------------------------
(* DateConsistencyFilter *)

\* Series.astype(str).str[:4]
str_slice4(v) == SubSeq(str(v), 1, IF Len(str(v)) < 4 THEN Len(str(v)) ELSE 4)

Pow10(n) == CASE n = 0 -> 1 [] n = 1 -> 10 [] n = 2 -> 100 [] n = 3 -> 1000

\* pd.to_numeric(text, errors='coerce') on the texts of at most four
\* characters that reach it: surrounding blanks are skipped, ASCII digits
\* with at most one decimal point are a number, anything else is NaN
to_numeric(text) ==
    LET c == strip(text)
        puntos == {i \in 1..Len(c) : c[i] = "."}
        punto == IF puntos = {} THEN Len(c) + 1 ELSE CHOOSE i \in puntos : TRUE
        entero == SubSeq(c, 1, punto - 1)
        decimales == SubSeq(c, punto + 1, Len(c))
    IN  IF /\ \A i \in 1..Len(c) : c[i] \in AsciiDigits \cup {"."}
           /\ Cardinality(puntos) <= 1
           /\ Len(entero) + Len(decimales) >= 1
        THEN Num(1000 * int(entero) + int(decimales) * Pow10(3 - Len(decimales)))
        ELSE NaN

\* mutant: the comparison of the years reversed
mask_valido_invertida(year_diff_ok, year_photo, year_subproject) ==
    /\ ~year_diff_ok
    /\ ~pd_isna(year_photo)
    /\ ~pd_isna(year_subproject)

\* mutant: a row with a missing year is given the benefit of the doubt
mask_valido_con_or(year_diff_ok, year_photo, year_subproject) ==
    \/ year_diff_ok
    \/ pd_isna(year_photo)
    \/ pd_isna(year_subproject)

\* lines 315-319
mask_valido(year_diff_ok, year_photo, year_subproject) ==
    /\ year_diff_ok
    /\ ~pd_isna(year_photo)
    /\ ~pd_isna(year_subproject)

\* mutant: a tolerance of zero years
year_diff_le_0(year_subproject, year_photo) ==
    /\ ~pd_isna(year_subproject)
    /\ ~pd_isna(year_photo)
    /\ year_subproject.milli - year_photo.milli <= 0

\* (year_subproject - year_photo) <= 1; a comparison with NaN is False
year_diff_le_1(year_subproject, year_photo) ==
    /\ ~pd_isna(year_subproject)
    /\ ~pd_isna(year_photo)
    /\ year_subproject.milli - year_photo.milli <= 1000

\* mutant: the mask shifted by one row before it is applied
aplicar_mask_desplazada(df, mask) ==
    SelectRows(df, {i \in 1..Len(df.rows) : i > 1 /\ (i - 1) \in mask})

\* line 321: df[mask_valido].copy()
aplicar_mask(df, mask) == SelectRows(df, mask)

filtrar_fechas_inconsistentes(df, columna_fecha, columna_subproject) ==
    IF ~HasColumn(df, columna_fecha) \/ ~HasColumn(df, columna_subproject)
    THEN df
    ELSE
      LET dup == columns_duplicated(df)
          df1 == IF \E j \in 1..Len(dup) : dup[j]
                 THEN SelectColumns(df, {j \in 1..Len(dup) : ~dup[j]})
                 ELSE df
          df2 == IF df1.dtypes[ColPos(df1, columna_fecha)] # "datetime64"
                 THEN SetColumn(df1, columna_fecha,
                                to_datetime_auto(Column(df1, columna_fecha)),
                                "datetime64")
                 ELSE df1
          year_photo == dt_year(Column(df2, columna_fecha))
          year_subproject ==
              [i \in 1..Len(df2.rows) |->
                 to_numeric(str_slice4(Column(df2, columna_subproject)[i]))]
          mask == {i \in 1..Len(df2.rows) :
                     mask_valido(year_diff_le_1(year_subproject[i], year_photo[i]),
                                 year_photo[i], year_subproject[i])}
      IN  aplicar_mask(df2, mask)

-----------------------------------------------------------------------------
(* Inputs of the validator *)

CodeAlphabet == {"0", "2", "_", ".", "sup2"}

Pad(n) == [i \in 1..n |-> " "]

CodeBodies == UNION {[1..k -> CodeAlphabet] : k \in 0..MaxLen}

ScenarioCodes ==
    { <<"2", "0", "2", "5", "_", "1", ".", "2">>,
      <<"2", "0", "1", "9", "_", "1">>,
      <<"2", "0", "2", "5", "_", "1">>,
      <<"2", "0", "2", "5", "_", "0">>,
      <<"2", "0", "2", "5", "_", "9">>,
      <<"n", "a", "n">> }

Code_2025_1_2 == Str(<<"2", "0", "2", "5", "_", "1", ".", "2">>)
Code_2019_1   == Str(<<"2", "0", "1", "9", "_", "1">>)
Code_2025_1   == Str(<<"2", "0", "2", "5", "_", "1">>)

CodeStrings ==
    { Pad(l) \o b \o Pad(r) : l \in 0..MaxPad, r \in 0..MaxPad, b \in CodeBodies }
      \cup ScenarioCodes

CodeInputs == {None, NaN} \cup { Str(s) : s \in CodeStrings }

\* the parts of the state a specification does not exercise
ValidarIdle == subproject_name = None /\ es_valido = <<>>
TimestampsIdle == images = EmptyFrame /\ consola = <<>>
FechasIdle == data = EmptyFrame /\ data_previas = <<>>
GeoIdle ==
    /\ deployments = <<>>
    /\ shapefile = [existe |-> FALSE]
    /\ project_corporaciones = <<>>
ExportIdle ==
    /\ projects = <<>>
    /\ entorno = [referencias |-> TRUE, imagenes |-> TRUE, fallas |-> {}]
    /\ resultado = <<>>
    /\ parquets = {}
MainIdle ==
    /\ pc = "inactivo"
    /\ etapas = <<>>
    /\ retorno = <<>>
    /\ exit_status = <<>>

InitValidar ==
    /\ subproject_name \in CodeInputs
    /\ es_valido = <<>>
    /\ TimestampsIdle /\ FechasIdle /\ GeoIdle /\ ExportIdle /\ MainIdle

Validar ==
    /\ es_valido = <<>>
    /\ es_valido' = <<validar_subproject_name(subproject_name)>>
    /\ UNCHANGED <<subproject_name, varsTimestamps, varsFechas, varsGeo,
                   varsExport, varsMain>>

NextValidar == Validar

SpecValidar == InitValidar /\ [][NextValidar]_vars

-----------------------------------------------------------------------------
(* The timestamp normaliser on its own *)

RawEntries ==
    { RawTs(l, 1, 15, 2024) :
        l \in {"Y-M-D H:M:S", "Y-M-D H:M:S.f", "Y/M/D H:M:S", "Y-M-DTH:M:S",
               "Y-M-DTH:M:S.f", "Y-M-DTH:M:SZ", "Y-M-D"} }
      \cup { RawTs(l, f[1], f[2], 2024) :
               l \in {"x/x/Y H:M", "x/x/Y H:M:S"},
               f \in {<<1, 15>>, <<15, 1>>, <<1, 2>>} }
      \cup {Garbage, NaN}

\* an object column of the given label holding the given cells
OneColumnFrame(name, cells) ==
    [columns |-> <<name>>, dtypes |-> <<"object">>,
     index |-> [i \in 1..Len(cells) |-> i - 1],
     rows |-> [i \in 1..Len(cells) |-> <<cells[i]>>]]

ImagesInputs ==
    { OneColumnFrame(name, cells) :
        name \in {"timestamp", "fecha"},
        cells \in UNION {[1..n -> RawEntries] : n \in 0..MaxTs} }

InitTimestamps ==
    /\ images \in ImagesInputs
    /\ consola = <<>>
    /\ ValidarIdle /\ FechasIdle /\ GeoIdle /\ ExportIdle /\ MainIdle

ProcesarTimestamps ==
    /\ consola = <<>>
    /\ images' = procesar_timestamps(images, "timestamp").df
    /\ consola' = consola \o procesar_timestamps(images, "timestamp").impreso
    /\ UNCHANGED <<varsValidar, varsFechas, varsGeo, varsExport, varsMain>>

NextTimestamps == ProcesarTimestamps

SpecTimestamps == InitTimestamps /\ [][NextTimestamps]_vars

(* Claims about procesar_timestamps *)

Procesado == HasColumn(images, "timestamp_parsed")

Formatos == 1..Len(formatos_fecha)

\* the strict format parses the raw entry
Parses(k, v) == strptime(v, formatos_fecha[k]) # NaT

\* the strict formats that parse at least one entry of the raw column
FormatosConExito ==
    {k \in Formatos : \E i \in 1..Len(images.rows) :
                         Parses(k, Column(images, "timestamp")[i])}

Adoptado == CHOOSE k \in FormatosConExito : \A j \in FormatosConExito : k <= j

\* C8: the first format of the list that parses some entry is adopted for
\* the whole column; an entry the adopted format does not parse is missing
\* (NaT), also when a later format would parse it.
C8_FirstFormatWholeColumn ==
    (Procesado /\ FormatosConExito # {}) =>
      /\ consola = <<[msg |-> "formato_detectado", formato |-> Adoptado]>>
      /\ \A i \in 1..Len(images.rows) :
            LET raw == Column(images, "timestamp")[i]
                out == Column(images, "photo_datetime")[i]
            IN  /\ Parses(Adoptado, raw) => out = strptime(raw, formatos_fecha[Adoptado])
                /\ ~Parses(Adoptado, raw) => out = NaT

\* an entry left missing although a later format of the list parses it
C8_Witness ==
    /\ Procesado
    /\ FormatosConExito # {}
    /\ \E i \in 1..Len(images.rows) :
          /\ Column(images, "photo_datetime")[i] = NaT
          /\ \E k \in Formatos :
                k > Adoptado /\ Parses(k, Column(images, "timestamp")[i])

UsoAuto == \E n \in 1..Len(consola) : consola[n].msg = "conversion_automatica"

\* C9: the permissive parser is used exactly when none of the nine strict
\* formats parses any entry of the column.
C9_AutoIffNoStrictFormat ==
    Procesado => (UsoAuto <=> FormatosConExito = {})

\* the permissive parser ran and recovered a date no strict format reads
C9_Witness ==
    /\ Procesado
    /\ UsoAuto
    /\ \E i \in 1..Len(images.rows) : Column(images, "photo_datetime")[i] # NaT

-----------------------------------------------------------------------------
(* The date consistency filter on its own *)

PhotoDates == {NaT, Dt(2019, 1, 1), Dt(2024, 6, 1), Dt(2027, 1, 15)}

RawDates ==
    { RawTs("Y-M-D H:M:S", 1, 1, 2019), RawTs("Y-M-D H:M:S", 6, 1, 2024),
      RawTs("x/x/Y H:M", 15, 1, 2027), Garbage }

Code_padded == Str(<<" ", "2", "0", "2", "5", "_", "1">>)
Code_decimal == Str(<<"2", ".", "2", "5", "_", "1">>)
Code_sup2 == Str(<<"2", "0", "2", "sup2", "_", "1">>)

FilterCodes == {Code_2025_1, Code_padded, Code_decimal, Code_sup2, None}

RangeIndex(n) == [i \in 1..n |-> i - 1]

\* photo_datetime already parsed, next to subproject_name
FramesParsed ==
    { [columns |-> <<"photo_datetime", "subproject_name">>,
       dtypes |-> <<"datetime64", "object">>,
       index |-> RangeIndex(n),
       rows |-> [i \in 1..n |-> <<f[i], c[i]>>]] :
        <<n, f, c>> \in UNION { {n} \X [1..n -> PhotoDates] \X [1..n -> FilterCodes] :
                                 n \in 0..MaxRows } }

\* the shape the merge leaves behind: the raw 'timestamp' column renamed to
\* photo_datetime in front of the photo_datetime column of the normaliser
FramesRenamed ==
    { [columns |-> <<"photo_datetime", "subproject_name", "photo_datetime">>,
       dtypes |-> <<"object", "object", "datetime64">>,
       index |-> RangeIndex(n),
       rows |-> [i \in 1..n |->
                   <<r[i], c[i],
                     Column(procesar_timestamps(OneColumnFrame("timestamp", r),
                                                "timestamp").df,
                            "photo_datetime")[i]>>]] :
        <<n, r, c>> \in UNION { {n} \X [1..n -> RawDates] \X [1..n -> FilterCodes] :
                                 n \in 0..MaxRows } }

\* a table that lacks one of the two columns
FramesIncomplete ==
    { OneColumnFrame("subproject_name", c) :
        c \in UNION {[1..n -> {Code_2025_1, None}] : n \in 0..MaxRows} }
      \cup { [OneColumnFrame("photo_datetime", f) EXCEPT !.dtypes = <<"datetime64">>] :
               f \in UNION {[1..n -> {NaT, Dt(2019, 1, 1)}] : n \in 0..MaxRows} }

FilterInputs == FramesParsed \cup FramesRenamed \cup FramesIncomplete

InitFechas ==
    /\ data \in FilterInputs
    /\ data_previas = <<>>
    /\ ValidarIdle /\ TimestampsIdle /\ GeoIdle /\ ExportIdle /\ MainIdle

FiltrarFechas ==
    /\ Len(data_previas) < MaxFiltros
    /\ data' = filtrar_fechas_inconsistentes(data, "photo_datetime", "subproject_name")
    /\ data_previas' = Append(data_previas, data)
    /\ UNCHANGED <<varsValidar, varsTimestamps, varsGeo, varsExport, varsMain>>

NextFechas == FiltrarFechas

SpecFechas == InitFechas /\ [][NextFechas]_vars

(* Claims about filtrar_fechas_inconsistentes *)

\* the table the first application received and the table it returned
Entrada == data_previas[1]
Salida  == IF Len(data_previas) >= 2 THEN data_previas[2] ELSE data

\* the filter has run on a table that has both columns
Filtrado ==
    /\ Len(data_previas) >= 1
    /\ HasColumn(Entrada, "photo_datetime")
    /\ HasColumn(Entrada, "subproject_name")

\* capture dates of the rows of a table: its first photo_datetime column,
\* read as dates
CaptureDates(df) ==
    IF df.dtypes[ColPos(df, "photo_datetime")] = "datetime64"
    THEN Column(df, "photo_datetime")
    ELSE to_datetime_auto(Column(df, "photo_datetime"))

\* event year of a code in thousandths, NaN when it cannot be parsed
EventYear(code) == to_numeric(str_slice4(code))

Retained(i) == \E k \in 1..Len(Salida.index) : Salida.index[k] = Entrada.index[i]

C5_MissingDropped ==
    Filtrado =>
      \A i \in 1..Len(Entrada.rows) :
        (\/ CaptureDates(Entrada)[i] = NaT
         \/ EventYear(Column(Entrada, "subproject_name")[i]) = NaN)
          => ~Retained(i)

\* a row with a consistent date and no event year, and a row with a
\* parsable code and no date, both dropped
C5_Witness ==
    /\ Filtrado
    /\ \E i, j \in 1..Len(Entrada.rows) :
          /\ CaptureDates(Entrada)[i] = Dt(2027, 1, 15)
          /\ EventYear(Column(Entrada, "subproject_name")[i]) = NaN
          /\ ~Retained(i)
          /\ CaptureDates(Entrada)[j] = NaT
          /\ Column(Entrada, "subproject_name")[j] = Code_2025_1
          /\ ~Retained(j)

Consistent(i) ==
    /\ CaptureDates(Entrada)[i] # NaT
    /\ EventYear(Column(Entrada, "subproject_name")[i]) # NaN
    /\ EventYear(Column(Entrada, "subproject_name")[i]).milli
         - 1000 * CaptureDates(Entrada)[i].year <= 1000

\* C6: a row with a capture date, a parsable event year and
\* event_year - capture_year <= 1 is retained, however far the capture year
\* lies after the event year.
C6_ConsistentRetained ==
    Filtrado => \A i \in 1..Len(Entrada.rows) : Consistent(i) => Retained(i)

\* a retained row captured after its event year, and one captured the year
\* before it
C6_Witness ==
    /\ Filtrado
    /\ \E i, j \in 1..Len(Entrada.rows) :
          /\ Column(Entrada, "subproject_name")[i] = Code_2025_1
          /\ CaptureDates(Entrada)[i].t = "dt"
          /\ CaptureDates(Entrada)[i].year > 2025
          /\ Retained(i)
          /\ Column(Entrada, "subproject_name")[j] = Code_2025_1
          /\ CaptureDates(Entrada)[j] = Dt(2024, 6, 1)
          /\ Retained(j)

\* C7: the filter applied to its own output returns that output: same rows,
\* same order, same values.
C7_Idempotent ==
    Len(data_previas) >= 2 => data = data_previas[2]

\* a second application after a first one that dropped rows and kept rows
C7_Witness ==
    /\ Len(data_previas) >= 2
    /\ Filtrado
    /\ Len(data.rows) >= 1
    /\ Len(data_previas[2].rows) < Len(Entrada.rows)

-----------------------------------------------------------------------------
(* Claims about validar_subproject_name *)

Validado == es_valido # <<>>
Aceptado == es_valido = <<TRUE>>

\* the code after the whitespace strip of line 216 (only used on strings)
Stripped == strip(str(subproject_name))

YearOf(c) ==
    1000 * DigitVal(c[1]) + 100 * DigitVal(c[2]) + 10 * DigitVal(c[3])
      + DigitVal(c[4])

WellShaped(c) ==
    /\ Len(c) = 6
    /\ c[5] = "_"
    /\ \A i \in 1..4 : c[i] \in AsciiDigits
    /\ YearOf(c) >= 2020

\* C1 (as stated): every accepted input, exactly as passed in, has 6
\* characters, '_' at index 4 and a four-digit year >= 2020 in front.
C1_RawShape ==
    Aceptado => (subproject_name.t = "str" /\ WellShaped(subproject_name.s))

\* C1 (amended): every accepted input, once its leading and trailing
\* whitespace is stripped, has 6 characters, '_' at index 4 and a four-digit
\* year >= 2020 in front.
C1_StrippedShape ==
    Aceptado => (subproject_name.t = "str" /\ WellShaped(Stripped))

C1_Witness ==
    /\ Aceptado
    /\ Len(subproject_name.s) = 7
    /\ subproject_name.s[1] = " "

CountChar(c, ch) == Cardinality({i \in 1..Len(c) : c[i] = ch})

\* position of the first '_' of c, Len(c) + 1 when there is none
FirstUnderscore(c) ==
    IF \E i \in 1..Len(c) : c[i] = "_"
    THEN CHOOSE i \in 1..Len(c) : c[i] = "_" /\ \A j \in 1..(i - 1) : c[j] # "_"
    ELSE Len(c) + 1

YearPart(c) == SubSeq(c, 1, FirstUnderscore(c) - 1)
SeqPart(c)  == SubSeq(c, FirstUnderscore(c) + 1, Len(c))

NullLike(v) ==
    \/ v.t \in {"None", "NaN"}
    \/ strip(str(v)) = <<"n", "a", "n">>
    \/ strip(str(v)) = <<>>

BadLength(c)     == Len(c) # 6
BadUnderscore(c) == Len(c) < 5 \/ c[5] # "_"
BadSplit(c)      == CountChar(c, "_") # 1
BadYearPart(c)   ==
    Len(YearPart(c)) # 4 \/ \E i \in 1..Len(YearPart(c)) : YearPart(c)[i] \notin DigitChars
BadSeqPart(c)    ==
    Len(SeqPart(c)) # 1 \/ \E i \in 1..Len(SeqPart(c)) : SeqPart(c)[i] \notin DigitChars
YearTooSmall(c)  ==
    /\ Len(c) >= 4
    /\ \A i \in 1..4 : c[i] \in AsciiDigits
    /\ YearOf(c) < 2020

ViolatesARule(v) ==
    \/ NullLike(v)
    \/ BadLength(strip(str(v)))
    \/ BadUnderscore(strip(str(v)))
    \/ BadSplit(strip(str(v)))
    \/ BadYearPart(strip(str(v)))
    \/ BadSeqPart(strip(str(v)))
    \/ YearTooSmall(strip(str(v)))

\* C2: an input that violates any rule of the grammar (null-like, length,
\* underscore at index 4, two parts, four-digit year, one-digit sequence,
\* year >= 2020; length and positions taken after the whitespace strip, a
\* digit being what str.isdigit accepts) is rejected; '2025_1.2' and
\* '2019_1' are rejected and '2025_1' is accepted.
C2_ViolationRejected ==
    Validado =>
      /\ ViolatesARule(subproject_name) => es_valido = <<FALSE>>
      /\ subproject_name \in {Code_2025_1_2, Code_2019_1} => es_valido = <<FALSE>>
      /\ subproject_name = Code_2025_1 => es_valido = <<TRUE>>

\* a code rejected for its sequence character alone
C2_Witness ==
    /\ es_valido = <<FALSE>>
    /\ subproject_name.t = "str"
    /\ ~BadLength(Stripped) /\ ~BadUnderscore(Stripped) /\ ~BadSplit(Stripped)
    /\ ~BadYearPart(Stripped) /\ ~YearTooSmall(Stripped)
    /\ BadSeqPart(Stripped)

\* C3: the sequence character of every accepted code is a digit 1..9, so a
\* code with sequence '0' is rejected.
C3_SequenceOneToNine ==
    Aceptado => Stripped[6] \in (AsciiDigits \ {"0"})

-----------------------------------------------------------------------------
(* JurisdictionAssigner *)

\* Jurisdiction names are one-character strings; Rank is their sort order.
Rank(v) == CASE v.s = <<"A">> -> 1 [] v.s = <<"B">> -> 2 [] v.s = <<"C">> -> 3

RECURSIVE SortInts(_)
\* the integers of the finite set S in ascending order
SortInts(S) ==
    IF S = {} THEN <<>>
    ELSE LET m == CHOOSE x \in S : \A y \in S : x <= y
         IN  <<m>> \o SortInts(S \ {m})

RECURSIVE SortNames(_)
\* the names of the finite set S in ascending order
SortNames(S) ==
    IF S = {} THEN <<>>
    ELSE LET m == CHOOSE x \in S : \A y \in S : Rank(x) <= Rank(y)
         IN  <<m>> \o SortNames(S \ {m})

RECURSIVE unique(_)
\* Series.unique(): the distinct values in order of first appearance
unique(seq) ==
    IF seq = <<>> THEN <<>>
    ELSE LET antes == unique(SubSeq(seq, 1, Len(seq) - 1))
             x == seq[Len(seq)]
         IN  IF \E i \in 1..Len(antes) : antes[i] = x THEN antes
             ELSE Append(antes, x)

crear_corporaciones_null(deployments_df) ==
    LET project_ids ==
            unique([i \in 1..Len(deployments_df) |-> deployments_df[i].project_id])
    IN  [i \in 1..Len(project_ids) |->
           [project_id |-> project_ids[i], Corporacion |-> None]]

\* mutant: deps.fillna(0), a missing coordinate replaced instead of dropped
dropna_coordenadas_fillna(deps) ==
    [i \in 1..Len(deps) |->
       [deps[i] EXCEPT
          !.longitude = IF pd_isna(@) THEN Num(0) ELSE @,
          !.latitude = IF pd_isna(@) THEN Num(0) ELSE @]]

\* deps.dropna(subset=['longitude', 'latitude'])
dropna_coordenadas(deps) ==
    SelectSeq(deps, LAMBDA d : ~pd_isna(d.longitude) /\ ~pd_isna(d.latitude))

\* predicate='within': the point lies in the interior of the polygon; a
\* point with a missing coordinate lies in no polygon
within(d, poligono) ==
    /\ ~pd_isna(d.longitude)
    /\ ~pd_isna(d.latitude)
    /\ <<d.longitude.milli, d.latitude.milli>> \in poligono.geometry

RECURSIVE sjoin_left(_, _)
\* gpd.sjoin(points, polygons, how='left', predicate='within') followed by
\* the projection and rename of lines 223-224: one row per matching
\* polygon, one row with a null name for a point that matches none
sjoin_left(gdf_deployments, gdf_cars) ==
    IF gdf_deployments = <<>> THEN <<>>
    ELSE
      LET d == gdf_deployments[Len(gdf_deployments)]
          hits == {k \in 1..Len(gdf_cars) : within(d, gdf_cars[k])}
          filas ==
              IF hits = {}
              THEN << [deployment_id |-> d.deployment_id,
                       project_id |-> d.project_id, Corporacion |-> NaN] >>
              ELSE LET orden == SortInts(hits)
                   IN  [n \in 1..Len(orden) |->
                          [deployment_id |-> d.deployment_id,
                           project_id |-> d.project_id,
                           Corporacion |-> gdf_cars[orden[n]].NOMBRE_CAR]]
      IN  sjoin_left(SubSeq(gdf_deployments, 1, Len(gdf_deployments) - 1), gdf_cars)
            \o filas

value_count(x, v) == Cardinality({i \in 1..Len(x) : x[i] = v})

\* mutant: Series.mode(dropna=False), the missing value counted like a name
mode_con_nulos(x) ==
    LET valores == {x[i] : i \in 1..Len(x)}
        maximo == {v \in valores : \A w \in valores : value_count(x, v) >= value_count(x, w)}
    IN  IF \E v \in maximo : pd_isna(v)
        THEN SortNames({v \in maximo : ~pd_isna(v)}) \o <<NaN>>
        ELSE SortNames(maximo)

\* Series.mode(): the most frequent non-null values, sorted
mode(x) ==
    LET valores == {x[i] : i \in 1..Len(x)} \ {NaN, None}
        maximo == {v \in valores : \A w \in valores : value_count(x, v) >= value_count(x, w)}
    IN  SortNames(maximo)

\* mutant: the last of the modes instead of the first
agg_moda_ultimo(x) ==
    IF Len(mode(x)) > 0 /\ ~pd_isna(mode(x)[Len(mode(x))])
    THEN mode(x)[Len(mode(x))] ELSE None

\* the aggregation lambda of line 228
agg_moda(x) ==
    IF Len(mode(x)) > 0 /\ ~pd_isna(mode(x)[1]) THEN mode(x)[1] ELSE None

\* lines 222-229: groupby('project_id')['Corporacion'].agg(...).reset_index()
agregar_por_proyecto(deployment_corps) ==
    LET claves == SortInts({deployment_corps[i].project_id :
                              i \in 1..Len(deployment_corps)})
        grupo(p) ==
            LET filas == SelectSeq(deployment_corps, LAMBDA r : r.project_id = p)
            IN  [i \in 1..Len(filas) |-> filas[i].Corporacion]
    IN  [n \in 1..Len(claves) |->
           [project_id |-> claves[n], Corporacion |-> agg_moda(grupo(claves[n]))]]

\* the deployment-level table of lines 203-224, for a readable dataset
deployment_corps_de(deployments_df, shp) ==
    sjoin_left(dropna_coordenadas(deployments_df), shp.gdf_cars)

\* mutant: an empty table instead of the null table when the dataset is
\* missing, unreadable or lacks NOMBRE_CAR
asignar_corporacion_geografica_sin_nulos(deployments_df, shp) ==
    IF ~shp.existe THEN <<>>
    ELSE IF ~shp.legible THEN <<>>
    ELSE IF ~shp.NOMBRE_CAR THEN <<>>
    ELSE IF Len(dropna_coordenadas(deployments_df)) = 0
    THEN crear_corporaciones_null(deployments_df)
    ELSE agregar_por_proyecto(deployment_corps_de(deployments_df, shp))

asignar_corporacion_geografica(deployments_df, shp) ==
    IF ~shp.existe THEN crear_corporaciones_null(deployments_df)
    ELSE IF ~shp.legible THEN crear_corporaciones_null(deployments_df)
    ELSE IF ~shp.NOMBRE_CAR THEN crear_corporaciones_null(deployments_df)
    ELSE IF Len(dropna_coordenadas(deployments_df)) = 0
    THEN crear_corporaciones_null(deployments_df)
    ELSE agregar_por_proyecto(deployment_corps_de(deployments_df, shp))

-----------------------------------------------------------------------------
(* The jurisdiction assigner on its own *)

CarA == Str(<<"A">>)
CarB == Str(<<"B">>)

P00 == <<0, 0>>
P10 == <<1000, 0>>

Poligono(nombre, puntos) == [NOMBRE_CAR |-> nombre, geometry |-> puntos]

PolygonSets ==
    { <<>>,
      <<Poligono(CarA, {P00})>>,
      <<Poligono(CarA, {P00}), Poligono(CarB, {P10})>>,
      <<Poligono(CarB, {P00, P10}), Poligono(CarA, {P10})>>,
      <<Poligono(CarA, {P00}), Poligono(CarA, {P00, P10})>> }

Shapefiles ==
    { [existe |-> FALSE],
      [existe |-> TRUE, legible |-> FALSE],
      [existe |-> TRUE, legible |-> TRUE, NOMBRE_CAR |-> FALSE] }
      \cup { [existe |-> TRUE, legible |-> TRUE, NOMBRE_CAR |-> TRUE, gdf_cars |-> g] :
               g \in PolygonSets }

Coordenadas ==
    { <<Num(0), Num(0)>>, <<Num(1000), Num(0)>>, <<NaN, Num(0)>>, <<Num(0), NaN>> }

DeploymentTables ==
    { [i \in 1..n |-> [deployment_id |-> i, project_id |-> p[i],
                       longitude |-> c[i][1], latitude |-> c[i][2]]] :
        <<n, p, c>> \in UNION { {n} \X [1..n -> {1, 2}] \X [1..n -> Coordenadas] :
                                 n \in 0..MaxDeps } }

InitGeo ==
    /\ deployments \in DeploymentTables
    /\ shapefile \in Shapefiles
    /\ project_corporaciones = <<>>
    /\ ValidarIdle /\ TimestampsIdle /\ FechasIdle /\ ExportIdle /\ MainIdle

AsignarCorporacion ==
    /\ project_corporaciones = <<>>
    /\ project_corporaciones' =
         <<asignar_corporacion_geografica(deployments, shapefile)>>
    /\ UNCHANGED <<deployments, shapefile, varsValidar, varsTimestamps, varsFechas,
                   varsExport, varsMain>>

NextGeo == AsignarCorporacion

SpecGeo == InitGeo /\ [][NextGeo]_vars

(* Claims about asignar_corporacion_geografica *)

\* the assigner has returned after reaching the spatial join
Geocodificado ==
    /\ project_corporaciones # <<>>
    /\ shapefile.existe
    /\ shapefile.legible
    /\ shapefile.NOMBRE_CAR
    /\ \E i \in 1..Len(deployments) :
          deployments[i].longitude # NaN /\ deployments[i].latitude # NaN

Asignaciones == project_corporaciones[1]

\* the deployment-level jurisdictions of project p: one per row of the
\* spatial join, null when the point lies in no polygon
Votos(p) ==
    LET filas == SelectSeq(deployment_corps_de(deployments, shapefile),
                           LAMBDA r : r.project_id = p)
    IN  [i \in 1..Len(filas) |-> filas[i].Corporacion]

NumVotos(p, car) == Cardinality({i \in 1..Len(Votos(p)) : Votos(p)[i] = car})

\* C10: each project is assigned the most frequent non-null
\* deployment-level jurisdiction of its deployments, however many of its
\* deployments have a null one; a 3-to-1 split between 'A' and 'B' gives 'A'.
C10_MostFrequentNonNull ==
    Geocodificado =>
      \A n \in 1..Len(Asignaciones) :
        LET p == Asignaciones[n].project_id
            car == Asignaciones[n].Corporacion
        IN  /\ (\E c \in {CarA, CarB} : NumVotos(p, c) > 0) => car \in {CarA, CarB}
            /\ car \in {CarA, CarB} =>
                  /\ NumVotos(p, car) > 0
                  /\ \A c \in {CarA, CarB} : NumVotos(p, car) >= NumVotos(p, c)
            /\ (NumVotos(p, CarA) = 3 /\ NumVotos(p, CarB) = 1) => car = CarA

\* a project split 3-to-1 between 'A' and 'B', and a project whose null
\* results outnumber its only named one
C10_Witness ==
    /\ Geocodificado
    /\ \E n \in 1..Len(Asignaciones) :
          /\ NumVotos(Asignaciones[n].project_id, CarA) = 3
          /\ NumVotos(Asignaciones[n].project_id, CarB) = 1
          /\ Asignaciones[n].Corporacion = CarA

\* null results outnumber the only named one and the name still wins
C10_WitnessNulls ==
    /\ Geocodificado
    /\ \E n \in 1..Len(Asignaciones) :
          /\ NumVotos(Asignaciones[n].project_id, NaN) >= 2
          /\ NumVotos(Asignaciones[n].project_id, CarA) = 1
          /\ NumVotos(Asignaciones[n].project_id, CarB) = 0
          /\ Asignaciones[n].Corporacion = CarA

\* a deployment with both coordinates present
CoordenadasCompletas(d) == ~pd_isna(d.longitude) /\ ~pd_isna(d.latitude)

\* the dataset was found, read, and has the region-name attribute
ShapefileUtil ==
    shapefile.existe /\ shapefile.legible /\ shapefile.NOMBRE_CAR

\* the deployments table without the deployments that miss a coordinate
SinIncompletos == SelectSeq(deployments, CoordenadasCompletas)

\* the jurisdiction a mapping gives project p, null when p has no entry
Lookup(mapping, p) ==
    IF \E n \in 1..Len(mapping) : mapping[n].project_id = p
    THEN mapping[CHOOSE n \in 1..Len(mapping) : mapping[n].project_id = p].Corporacion
    ELSE None

\* C11: a deployment whose latitude or longitude is NaN has no row with a
\* non-null jurisdiction in the deployment-level table, and every project's
\* jurisdiction is the one it gets when those deployments are removed from
\* the input, whatever their other coordinate is.
C11_MissingCoordinateNoVote ==
    (project_corporaciones # <<>> /\ ShapefileUtil) =>
      /\ \A i \in 1..Len(deployments) :
            ~CoordenadasCompletas(deployments[i]) =>
              \A k \in 1..Len(deployment_corps_de(deployments, shapefile)) :
                LET r == deployment_corps_de(deployments, shapefile)[k]
                IN  r.deployment_id = deployments[i].deployment_id
                      => pd_isna(r.Corporacion)
      /\ \A n \in 1..Len(Asignaciones) :
            Asignaciones[n].Corporacion =
              Lookup(asignar_corporacion_geografica(SinIncompletos, shapefile),
                     Asignaciones[n].project_id)

\* a deployment with a missing longitude whose latitude is that of a point
\* inside polygon 'A', in a project that another deployment puts in 'B'
C11_Witness ==
    /\ Geocodificado
    /\ \E i \in 1..Len(deployments) :
          /\ pd_isna(deployments[i].longitude)
          /\ deployments[i].latitude = Num(0)
          /\ \E k \in 1..Len(shapefile.gdf_cars) :
                /\ shapefile.gdf_cars[k].NOMBRE_CAR = CarA
                /\ P00 \in shapefile.gdf_cars[k].geometry
          /\ Lookup(Asignaciones, deployments[i].project_id) = CarB

\* project p has an entry in the returned mapping
TieneEntrada(p) ==
    \E n \in 1..Len(Asignaciones) : Asignaciones[n].project_id = p

\* none of project p's deployments has both coordinates, or none of them
\* falls within a polygon
SinEvidencia(p) ==
    \/ ~ShapefileUtil
    \/ \A c \in {CarA, CarB} : NumVotos(p, c) = 0

\* C12: every project_id of the deployments table has an entry in the
\* returned mapping, and the entry is null when none of the project's
\* deployments has both coordinates or none falls within a polygon.
C12_EntryForEveryProject ==
    project_corporaciones # <<>> =>
      \A i \in 1..Len(deployments) :
        /\ TieneEntrada(deployments[i].project_id)
        /\ \A n \in 1..Len(Asignaciones) :
              (Asignaciones[n].project_id = deployments[i].project_id
                 /\ SinEvidencia(deployments[i].project_id))
                => Asignaciones[n].Corporacion = None

\* the part of C12 that holds: an entry of a project without evidence is null
C12_NullWithoutEvidence ==
    project_corporaciones # <<>> =>
      \A n \in 1..Len(Asignaciones) :
        SinEvidencia(Asignaciones[n].project_id)
          => Asignaciones[n].Corporacion = None

\* 'A' and 'B' tie for most frequent among the votes of project p
Empate(p) == NumVotos(p, CarA) > 0 /\ NumVotos(p, CarA) = NumVotos(p, CarB)

\* the named jurisdiction met first among the votes of project p, which
\* are in the input order of its deployments
PrimerEncontrado(p) ==
    Votos(p)[CHOOSE i \in 1..Len(Votos(p)) :
               /\ ~pd_isna(Votos(p)[i])
               /\ \A j \in 1..(i - 1) : pd_isna(Votos(p)[j])]

\* C13 as stated: on a tie of non-null jurisdictions the project is
\* assigned the tied jurisdiction encountered first in the input order of
\* its deployments.
C13_TieFirstEncountered ==
    Geocodificado =>
      \A n \in 1..Len(Asignaciones) :
        Empate(Asignaciones[n].project_id)
          => Asignaciones[n].Corporacion = PrimerEncontrado(Asignaciones[n].project_id)

\* C13 amended: on a tie of non-null jurisdictions the project is assigned
\* the tied jurisdiction whose name sorts first, whatever the input order of
\* its deployments; the result depends on the multiset of votes only.
C13_TieSortedFirst ==
    Geocodificado =>
      \A n \in 1..Len(Asignaciones) :
        Empate(Asignaciones[n].project_id)
          => Asignaciones[n].Corporacion = CarA

\* a tie in which 'B' is met first and 'A' is assigned
C13_Witness ==
    /\ Geocodificado
    /\ \E n \in 1..Len(Asignaciones) :
          /\ Empate(Asignaciones[n].project_id)
          /\ PrimerEncontrado(Asignaciones[n].project_id) = CarB
          /\ Asignaciones[n].Corporacion = CarA

\* the rows of the deployment-level table that belong to deployment d
FilasDe(d) ==
    SelectSeq(deployment_corps_de(deployments, shapefile),
              LAMBDA r : r.deployment_id = d.deployment_id)

\* the polygons of the dataset that contain the point of deployment d
Coincidencias(d) ==
    {k \in 1..Len(shapefile.gdf_cars) : within(d, shapefile.gdf_cars[k])}

\* the name of the first polygon of the dataset that contains d
PrimeraCoincidencia(d) ==
    IF Coincidencias(d) = {} THEN NaN
    ELSE shapefile.gdf_cars[SortInts(Coincidencias(d))[1]].NOMBRE_CAR

\* the votes of project p when each deployment counts once, for its first
\* matching polygon
VotosPrimeraCoincidencia(p) ==
    LET filas == SelectSeq(SinIncompletos, LAMBDA d : d.project_id = p)
    IN  [i \in 1..Len(filas) |-> PrimeraCoincidencia(filas[i])]

\* C14: a deployment whose point lies within more than one polygon has a
\* single deployment-level jurisdiction, that of the first matching polygon,
\* and counts exactly once in the majority vote of its project.
C14_FirstMatchOnly ==
    Geocodificado =>
      /\ \A i \in 1..Len(deployments) :
            CoordenadasCompletas(deployments[i]) =>
              /\ Len(FilasDe(deployments[i])) = 1
              /\ FilasDe(deployments[i])[1].Corporacion
                   = PrimeraCoincidencia(deployments[i])
      /\ \A n \in 1..Len(Asignaciones) :
            Asignaciones[n].Corporacion
              = agg_moda(VotosPrimeraCoincidencia(Asignaciones[n].project_id))

\* the project-level consequence alone: counting every deployment once for
\* its first matching polygon gives the jurisdiction that is assigned
C14_SameMajority ==
    Geocodificado =>
      \A n \in 1..Len(Asignaciones) :
        Asignaciones[n].Corporacion
          = agg_moda(VotosPrimeraCoincidencia(Asignaciones[n].project_id))

\* what holds instead: a deployment has one row per polygon that contains
\* its point
C14_OneRowPerMatch ==
    Geocodificado =>
      \A i \in 1..Len(deployments) :
        CoordenadasCompletas(deployments[i]) =>
          Len(FilasDe(deployments[i])) =
            IF Coincidencias(deployments[i]) = {} THEN 1
            ELSE Cardinality(Coincidencias(deployments[i]))

-----------------------------------------------------------------------------
(* Table export (generate_parquets.py) *)

\* Tables are sequences of rows; a row is a record of the columns the
\* export reads.  Columns that are only carried from input to output are
\* left out.
Entero(n) == [t |-> "int", v |-> n]

\* a < b for two tuples of integers of the same length
LexLess(a, b) ==
    \E i \in 1..Len(a) : a[i] < b[i] /\ \A j \in 1..(i - 1) : a[j] = b[j]

RECURSIVE OrdenarIndices(_, _)
\* the indices S ordered by their keys, equal keys in index order
OrdenarIndices(S, claves) ==
    IF S = {} THEN <<>>
    ELSE LET m == CHOOSE i \in S : \A j \in S \ {i} :
                     \/ LexLess(claves[i], claves[j])
                     \/ (claves[i] = claves[j] /\ i < j)
         IN  <<m>> \o OrdenarIndices(S \ {m}, claves)

\* DataFrame.sort_values: rows ordered by the key tuples in claves
sort_values(rows, claves) ==
    LET orden == OrdenarIndices(1..Len(rows), claves)
    IN  [n \in 1..Len(rows) |-> rows[orden[n]]]

\* position of a jurisdiction in a sort with na_position='last'
RankNaLast(v) == IF pd_isna(v) THEN 4 ELSE Rank(v)

\* Series.nunique(): the number of distinct non-null values
nunique(x) == Cardinality({x[i] : i \in 1..Len(x)} \ {NaN, None})

\* lines 236-260: groupby(deployment_name).agg(total_photos, species_count)
calcular_estadisticas_deployment(df_observations) ==
    LET claves == SortInts({df_observations[i].deployment_name :
                              i \in 1..Len(df_observations)})
        grupo(k) == SelectSeq(df_observations, LAMBDA r : r.deployment_name = k)
    IN  [n \in 1..Len(claves) |->
           [deployment_name |-> claves[n],
            total_photos |-> Entero(Len(grupo(claves[n]))),
            species_count |->
              Entero(nunique([i \in 1..Len(grupo(claves[n])) |->
                             grupo(claves[n])[i].sp_binomial]))]]

RECURSIVE merge_deployment_stats(_, _)
\* lines 111-128: deployment_name := deployment_id, then
\* merge(deployment_stats, on='deployment_name', how='left'): every row of
\* the deployments table is kept, once per matching row of the statistics
merge_deployment_stats(df_deployments, deployment_stats) ==
    IF df_deployments = <<>> THEN <<>>
    ELSE
      LET d == df_deployments[Len(df_deployments)]
          hits == SelectSeq(deployment_stats,
                            LAMBDA e : e.deployment_name = d.deployment_id)
          filas ==
              IF hits = <<>>
              THEN << [deployment_id |-> d.deployment_id,
                       project_id |-> d.project_id,
                       deployment_name |-> d.deployment_id,
                       total_photos |-> NaN, species_count |-> NaN] >>
              ELSE [n \in 1..Len(hits) |->
                      [deployment_id |-> d.deployment_id,
                       project_id |-> d.project_id,
                       deployment_name |-> d.deployment_id,
                       total_photos |-> hits[n].total_photos,
                       species_count |-> hits[n].species_count]]
      IN  merge_deployment_stats(SubSeq(df_deployments, 1, Len(df_deployments) - 1),
                                 deployment_stats) \o filas

\* lines 336-343: num_unique / num_total raises ZeroDivisionError on a table
\* without rows that has a column of strings (here Corporacion)
optimizar_tipos_datos_falla(df) == df = <<>>

\* A generator returns [exito, archivo]: archivo is <<>> when nothing was
\* written and <<table>> otherwise.  falla: an exception is raised inside
\* the try block (lines 73-75, 162-164, 227-229).
NoEscrito == [exito |-> FALSE, archivo |-> <<>>]

\* lines 13-75
generar_observations_parquet(df, falla) ==
    IF df = <<>> THEN NoEscrito
    ELSE IF falla THEN NoEscrito
    ELSE [exito |-> TRUE,
          archivo |-> << sort_values(df,
                           [i \in 1..Len(df) |->
                              <<df[i].project_id, RankNaLast(df[i].Corporacion),
                                df[i].deployment_name>>]) >>]

\* mutant: deployment_name is written into the frame of the caller
df_deployments_sin_copy(df_deployments) ==
    [i \in 1..Len(df_deployments) |->
       [f \in DOMAIN df_deployments[i] \cup {"deployment_name"} |->
          IF f = "deployment_name" THEN df_deployments[i].deployment_id
          ELSE df_deployments[i][f]]]

\* lines 112-115: deployment_name is written into a copy of df_deployments,
\* so the frame of the caller is after the call what it was before
df_deployments_despues(df_deployments) == df_deployments

\* lines 99-139: the table that is written
tabla_deployments(df_observations, df_deployments) ==
    LET df_final ==
            merge_deployment_stats(df_deployments,
                                   calcular_estadisticas_deployment(df_observations))
    IN  sort_values(df_final, [i \in 1..Len(df_final) |->
                                 <<df_final[i].project_id, df_final[i].deployment_id>>])

\* lines 82-164
generar_deployments_parquet(df_observations, df_deployments, falla) ==
    IF df_deployments = <<>> THEN NoEscrito
    ELSE IF falla THEN NoEscrito
    ELSE [exito |-> TRUE,
          archivo |-> << tabla_deployments(df_observations, df_deployments) >>]

\* mutant: the (project_id, project_name) and (project_id, Corporacion)
\* pairs merged without drop_duplicates, one pair per observation
calcular_estadisticas_proyecto_sin_drop(df_observations) ==
    LET claves == SortInts({df_observations[i].project_id :
                              i \in 1..Len(df_observations)})
        grupo(k) == SelectSeq(df_observations, LAMBDA r : r.project_id = k)
        filas(k) ==
            [n \in 1..Len(grupo(k)) |->
               [project_id |-> k,
                total_photos |-> Entero(Len(grupo(k))),
                total_species |->
                  Entero(nunique([i \in 1..Len(grupo(k)) |-> grupo(k)[i].sp_binomial])),
                project_name |-> grupo(k)[n].project_name,
                Corporacion |-> grupo(k)[n].Corporacion]]
        RECURSIVE todas(_)
        todas(n) == IF n = 0 THEN <<>> ELSE todas(n - 1) \o filas(claves[n])
    IN  todas(Len(claves))

\* lines 263-320: groupby('project_id') statistics, then the left merges
\* with the distinct (project_id, project_name) pairs and the distinct
\* (project_id, Corporacion) pairs of the observations
calcular_estadisticas_proyecto(df_observations) ==
    LET claves == SortInts({df_observations[i].project_id :
                              i \in 1..Len(df_observations)})
        grupo(k) == SelectSeq(df_observations, LAMBDA r : r.project_id = k)
        nombres(k) ==
            unique([i \in 1..Len(grupo(k)) |-> grupo(k)[i].project_name])
        corporaciones(k) ==
            unique([i \in 1..Len(grupo(k)) |-> grupo(k)[i].Corporacion])
        nc(k) == Len(corporaciones(k))
        filas(k) ==
            [n \in 1..(Len(nombres(k)) * nc(k)) |->
               [project_id |-> k,
                total_photos |-> Entero(Len(grupo(k))),
                total_species |->
                  Entero(nunique([i \in 1..Len(grupo(k)) |-> grupo(k)[i].sp_binomial])),
                project_name |-> nombres(k)[((n - 1) \div nc(k)) + 1],
                Corporacion |-> corporaciones(k)[((n - 1) % nc(k)) + 1]]]
        RECURSIVE todas(_)
        todas(n) == IF n = 0 THEN <<>> ELSE todas(n - 1) \o filas(claves[n])
    IN  todas(Len(claves))

RECURSIVE merge_projects_right(_, _)
\* df_projects_base.merge(project_stats, on='project_id', how='right'):
\* every row of the statistics, once per matching row of the base table
merge_projects_right(df_projects_base, project_stats) ==
    IF project_stats = <<>> THEN <<>>
    ELSE
      LET e == project_stats[Len(project_stats)]
          hits == SelectSeq(df_projects_base, LAMBDA b : b.project_id = e.project_id)
          filas ==
              IF hits = <<>>
              THEN << [project_id |-> e.project_id, en_base |-> FALSE,
                       total_photos |-> e.total_photos,
                       total_species |-> e.total_species,
                       project_name |-> e.project_name,
                       Corporacion |-> e.Corporacion] >>
              ELSE [n \in 1..Len(hits) |->
                      [project_id |-> e.project_id, en_base |-> TRUE,
                       total_photos |-> e.total_photos,
                       total_species |-> e.total_species,
                       project_name |-> e.project_name,
                       Corporacion |-> e.Corporacion]]
      IN  merge_projects_right(df_projects_base,
                               SubSeq(project_stats, 1, Len(project_stats) - 1))
            \o filas

\* lines 171-229
generar_projects_parquet(df_observations, df_projects_base, falla) ==
    IF falla THEN NoEscrito
    ELSE
      LET project_stats == calcular_estadisticas_proyecto(df_observations)
          df_final ==
              IF df_projects_base # <<>>
              THEN merge_projects_right(df_projects_base, project_stats)
              ELSE [n \in 1..Len(project_stats) |->
                      [project_id |-> project_stats[n].project_id,
                       en_base |-> FALSE,
                       total_photos |-> project_stats[n].total_photos,
                       total_species |-> project_stats[n].total_species,
                       project_name |-> project_stats[n].project_name,
                       Corporacion |-> project_stats[n].Corporacion]]
      IN  IF optimizar_tipos_datos_falla(df_final) THEN NoEscrito
          ELSE [exito |-> TRUE,
                archivo |-> << sort_values(df_final,
                                 [i \in 1..Len(df_final) |->
                                    <<df_final[i].project_id>>]) >>]

\* the three generators, in the order of lines 380-400
Tablas == <<"observations", "deployments", "projects">>

generador(tabla, observations_df, deployments_df, projects_df, fallas) ==
    CASE tabla = "observations" ->
           generar_observations_parquet(observations_df, tabla \in fallas)
      [] tabla = "deployments" ->
           generar_deployments_parquet(observations_df, deployments_df, tabla \in fallas)
      [] tabla = "projects" ->
           generar_projects_parquet(observations_df, projects_df, tabla \in fallas)

\* mutant: the export stops at the first table that fails
generar_todas_las_tablas_hasta_fallo(observations_df, deployments_df, projects_df, fallas) ==
    LET g(n) == generador(Tablas[n], observations_df, deployments_df, projects_df, fallas)
        intentadas == {n \in 1..Len(Tablas) : \A m \in 1..(n - 1) : g(m).exito}
    IN  [resultados |-> [t \in {Tablas[n] : n \in intentadas} |->
                           g(CHOOSE n \in intentadas : Tablas[n] = t).exito],
         archivos |-> {[nombre |-> Tablas[n], tabla |-> g(n).archivo[1]] :
                         n \in {m \in intentadas : g(m).exito}}]

\* lines 361-419: returns the dict of outcomes; archivos are the files the
\* call has written
generar_todas_las_tablas(observations_df, deployments_df, projects_df, fallas) ==
    LET g(n) == generador(Tablas[n], observations_df, deployments_df, projects_df, fallas)
    IN  [resultados |-> [t \in {Tablas[n] : n \in 1..Len(Tablas)} |->
                           g(CHOOSE n \in 1..Len(Tablas) : Tablas[n] = t).exito],
         archivos |-> {[nombre |-> Tablas[n], tabla |-> g(n).archivo[1]] :
                         n \in {m \in 1..Len(Tablas) : g(m).exito}}]

\* to_parquet replaces a file of the same name
escribir(existentes, archivos) ==
    {f \in existentes : \A a \in archivos : a.nombre # f.nombre} \cup archivos

-----------------------------------------------------------------------------
(* The export on its own *)

MaxObs == 2            \* most rows of the observations table of the export
MaxDespliegues == 2    \* most rows of the deployments table of the export

ObservationRows ==
    { [project_id |-> p, deployment_name |-> d, sp_binomial |-> Str(<<sp>>),
       project_name |-> IF p = 1 THEN Str(<<"P">>) ELSE NaN,
       Corporacion |-> IF p = 1 THEN CarA ELSE NaN] :
        <<p, d, sp>> \in { <<1, 1, "x">>, <<1, 1, "y">>, <<1, 2, "x">>, <<2, 2, "x">> } }

ObservationTables ==
    UNION { [1..n -> ObservationRows] : n \in 0..MaxObs }

ExportDeployments ==
    UNION { [1..n -> { [deployment_id |-> d, project_id |-> p] :
                         <<d, p>> \in {1, 2} \X {1, 2} }] : n \in 0..MaxDespliegues }

ProjectTables ==
    { <<>>, <<[project_id |-> 1]>>, <<[project_id |-> 1], [project_id |-> 2]>> }

Entornos ==
    { [referencias |-> TRUE, imagenes |-> TRUE, fallas |-> f] :
        f \in SUBSET {Tablas[n] : n \in 1..Len(Tablas)} }

InitExport ==
    /\ data \in ObservationTables
    /\ deployments \in ExportDeployments
    /\ projects \in ProjectTables
    /\ entorno \in Entornos
    /\ resultado = <<>>
    /\ parquets = {}
    /\ data_previas = <<>>
    /\ shapefile = [existe |-> FALSE]
    /\ project_corporaciones = <<>>
    /\ ValidarIdle /\ TimestampsIdle /\ MainIdle

GenerarTodasLasTablas ==
    /\ resultado = <<>>
    /\ LET r == generar_todas_las_tablas(data, deployments, projects, entorno.fallas)
       IN  /\ resultado' = <<r.resultados>>
           /\ parquets' = escribir(parquets, r.archivos)
    /\ deployments' = df_deployments_despues(deployments)
    /\ UNCHANGED <<varsValidar, varsTimestamps, varsFechas, shapefile,
                   project_corporaciones, projects, entorno, varsMain>>

NextExport == GenerarTodasLasTablas

SpecExport == InitExport /\ [][NextExport]_vars

(* Claims about generar_todas_las_tablas *)

Exportado == resultado # <<>>

Resultados == resultado[1]

NombresDeTablas == {Tablas[n] : n \in 1..Len(Tablas)}

Escrito(t) == \E f \in parquets : f.nombre = t

\* C19: every call attempts the three exports: the result has one boolean
\* outcome per table, each the outcome of that table's own generator, False
\* for an export that raised, and a table that succeeds is written whatever
\* happened to the tables before it.
C19_AllExportsAttempted ==
    Exportado =>
      /\ DOMAIN Resultados = NombresDeTablas
      /\ \A t \in NombresDeTablas :
            /\ Resultados[t] \in BOOLEAN
            /\ Resultados[t] =
                 generador(t, data, deployments, projects, entorno.fallas).exito
            /\ t \in entorno.fallas => Resultados[t] = FALSE
            /\ Resultados[t] <=> Escrito(t)

\* the first export fails and the two after it succeed and are written
C19_Witness ==
    /\ Exportado
    /\ "observations" \in entorno.fallas
    /\ Resultados["observations"] = FALSE
    /\ Resultados["deployments"] = TRUE /\ Escrito("deployments")
    /\ Resultados["projects"] = TRUE /\ Escrito("projects")

\* the deployments table that was written
DeploymentsParquet ==
    (CHOOSE f \in parquets : f.nombre = "deployments").tabla

\* C20: the deployments output table has one row per unique deployment: no
\* two of its rows share a deployment_id.
C20_UniqueDeploymentId ==
    (Exportado /\ Escrito("deployments")) =>
      \A i, j \in 1..Len(DeploymentsParquet) :
        DeploymentsParquet[i].deployment_id = DeploymentsParquet[j].deployment_id
          => i = j

\* what holds instead: the output has exactly the rows of the input
\* deployments table, one output row per input row
C20_OneRowPerInputRow ==
    (Exportado /\ Escrito("deployments")) =>
      /\ Len(DeploymentsParquet) = Len(deployments)
      /\ \A d \in {1, 2} :
            Cardinality({i \in 1..Len(DeploymentsParquet) :
                           DeploymentsParquet[i].deployment_id = d})
              = Cardinality({i \in 1..Len(deployments) :
                               deployments[i].deployment_id = d})

\* the observations of the deployment of an output row: same project_id and
\* same deployment_id (deployment_name in the observations)
ObservacionesPropias(fila) ==
    SelectSeq(data, LAMBDA r : /\ r.project_id = fila.project_id
                               /\ r.deployment_name = fila.deployment_id)

\* a count as the output carries it: missing when the left merge found no
\* statistics for the deployment
Conteo(n) == IF n = 0 THEN {NaN, Entero(0)} ELSE {Entero(n)}

\* C30: in every row of the deployments output total_photos is the number of
\* observations of that row's own deployment (same project_id and
\* deployment_id) and species_count the number of their distinct sp_binomial
\* values; observations of a deployment of another project with the same
\* deployment_id are not counted.
C30_OwnDeploymentStatistics ==
    (Exportado /\ Escrito("deployments")) =>
      \A i \in 1..Len(DeploymentsParquet) :
        LET fila == DeploymentsParquet[i]
            propias == ObservacionesPropias(fila)
        IN  /\ fila.total_photos \in Conteo(Len(propias))
            /\ fila.species_count \in
                 Conteo(nunique([k \in 1..Len(propias) |-> propias[k].sp_binomial]))

-----------------------------------------------------------------------------
(* The orchestrator: main() of process_RAW_data_WI.py *)

\* Tables are sequences of row records.  An images row has project_id,
\* deployment_id, genus, species and the raw timestamp; a deployments row
\* has deployment_id, project_id, longitude, latitude and subproject_name.

CV_INVALIDOS == {Str(<<"No CV Result">>), Str(<<"Unknown">>)}

\* mutant: the markers looked for in genus only
limpiar_registros_cv_solo_genus(df) ==
    IF \E i \in 1..Len(df) : ~({"genus", "species"} \subseteq DOMAIN df[i])
    THEN df
    ELSE SelectSeq(df, LAMBDA r : /\ ~pd_isna(r.genus)
                                  /\ ~pd_isna(r.species)
                                  /\ r.genus \notin CV_INVALIDOS)

\* utils.py 372-401: without a genus or a species column the table is
\* returned as it is
limpiar_registros_cv(df) ==
    IF \E i \in 1..Len(df) : ~({"genus", "species"} \subseteq DOMAIN df[i])
    THEN df
    ELSE SelectSeq(df, LAMBDA r : /\ ~pd_isna(r.genus)
                                  /\ ~pd_isna(r.species)
                                  /\ r.genus \notin CV_INVALIDOS
                                  /\ r.species \notin CV_INVALIDOS)

\* procesar_timestamps on the timestamp column of the table: the column
\* photo_datetime is added
procesar_timestamps_tabla(df) ==
    LET parsed ==
          Column(procesar_timestamps(
                   OneColumnFrame("timestamp",
                                  [i \in 1..Len(df) |-> df[i].timestamp]),
                   "timestamp").df, "photo_datetime")
    IN  [i \in 1..Len(df) |->
           [project_id |-> df[i].project_id, deployment_id |-> df[i].deployment_id,
            genus |-> df[i].genus, species |-> df[i].species,
            timestamp |-> df[i].timestamp, photo_datetime |-> parsed[i]]]

\* transformations.py 28-45: sp_binomial = genus + " " + species
crear_nombre_cientifico(df) ==
    [i \in 1..Len(df) |->
       [project_id |-> df[i].project_id, deployment_id |-> df[i].deployment_id,
        genus |-> df[i].genus, species |-> df[i].species,
        timestamp |-> df[i].timestamp, photo_datetime |-> df[i].photo_datetime,
        sp_binomial |-> Str(df[i].genus.s \o <<" ">> \o df[i].species.s)]]

RECURSIVE merge_images_deployments(_, _)
\* transformations.py 94-131: left merge on project_id and deployment_id,
\* then the renames of COLUMN_MAPPING: deployment_id becomes deployment_name
\* and the raw timestamp column becomes a second photo_datetime column, in
\* front of the parsed one (kept here under the field name timestamp)
merge_images_deployments(images_df, deployments_df) ==
    IF images_df = <<>> THEN <<>>
    ELSE
      LET r == images_df[Len(images_df)]
          hits == SelectSeq(deployments_df,
                            LAMBDA d : /\ d.project_id = r.project_id
                                       /\ d.deployment_id = r.deployment_id)
          fila(sub) ==
              [project_id |-> r.project_id, deployment_name |-> r.deployment_id,
               sp_binomial |-> r.sp_binomial, timestamp |-> r.timestamp,
               photo_datetime |-> r.photo_datetime, subproject_name |-> sub]
          filas == IF hits = <<>> THEN << fila(NaN) >>
                   ELSE [n \in 1..Len(hits) |-> fila(hits[n].subproject_name)]
      IN  merge_images_deployments(SubSeq(images_df, 1, Len(images_df) - 1),
                                   deployments_df) \o filas

\* mutant: one rejected code empties the table
filtrar_por_subproject_valido_todo_o_nada(df, columna) ==
    IF ~HasColumn(df, columna) THEN df
    ELSE IF \A i \in 1..Len(df.rows) :
              validar_subproject_name(Column(df, columna)[i])
    THEN df
    ELSE SelectRows(df, {})

\* mutant: a table without the column is given an empty one
filtrar_por_subproject_valido_crea_columna(df, columna) ==
    IF ~HasColumn(df, columna)
    THEN SetColumn(df, columna, [i \in 1..Len(df.rows) |-> Str(<<>>)], "object")
    ELSE SelectRows(df, {i \in 1..Len(df.rows) :
                          validar_subproject_name(Column(df, columna)[i])})

\* utils.py 335-369. On a table without rows Series.apply returns an empty
\* Series of the dtype of the column, which is not a boolean mask: df[mask]
\* then selects the columns named by its (no) entries.
filtrar_por_subproject_valido(df, columna) ==
    IF ~HasColumn(df, columna) THEN df
    ELSE IF df.rows = <<>>
    THEN [columns |-> <<>>, dtypes |-> <<>>, index |-> df.index, rows |-> <<>>]
    ELSE SelectRows(df, {i \in 1..Len(df.rows) :
                          validar_subproject_name(Column(df, columna)[i])})

\* filtrar_por_subproject_valido on the table: the rows it keeps
filtrar_por_subproject_tabla(df) ==
    LET res == filtrar_por_subproject_valido(
                 OneColumnFrame("subproject_name",
                                [i \in 1..Len(df) |-> df[i].subproject_name]),
                 "subproject_name")
    IN  [n \in 1..Len(res.index) |-> df[res.index[n] + 1]]

\* the table as the DataFrame the date filter receives: the relabelled raw
\* timestamp column, the parsed photo_datetime column and subproject_name
marco_de_fechas(df) ==
    [columns |-> <<"photo_datetime", "photo_datetime", "subproject_name">>,
     dtypes |-> <<"object", "datetime64", "object">>,
     index |-> RangeIndex(Len(df)),
     rows |-> [i \in 1..Len(df) |->
                 <<df[i].timestamp, df[i].photo_datetime, df[i].subproject_name>>]]

\* filtrar_fechas_inconsistentes on the table: the rows the filter keeps,
\* with the photo_datetime column it returns
filtrar_fechas_tabla(df) ==
    LET res == filtrar_fechas_inconsistentes(marco_de_fechas(df),
                                             "photo_datetime", "subproject_name")
        fechas == Column(res, "photo_datetime")
    IN  [n \in 1..Len(res.index) |->
           LET r == df[res.index[n] + 1]
           IN  [project_id |-> r.project_id, deployment_name |-> r.deployment_name,
                sp_binomial |-> r.sp_binomial, photo_datetime |-> fechas[n],
                subproject_name |-> r.subproject_name]]

RECURSIVE merge_with_projects(_, _)
\* transformations.py 134-160: left merge with (project_id, project_name)
merge_with_projects(df, projects_df) ==
    IF df = <<>> THEN <<>>
    ELSE
      LET r == df[Len(df)]
          hits == SelectSeq(projects_df, LAMBDA q : q.project_id = r.project_id)
          fila(nombre) ==
              [project_id |-> r.project_id, deployment_name |-> r.deployment_name,
               sp_binomial |-> r.sp_binomial, photo_datetime |-> r.photo_datetime,
               subproject_name |-> r.subproject_name, project_name |-> nombre]
          filas == IF hits = <<>> THEN << fila(NaN) >>
                   ELSE [n \in 1..Len(hits) |-> fila(hits[n].project_name)]
      IN  merge_with_projects(SubSeq(df, 1, Len(df) - 1), projects_df) \o filas

\* mutant: every observation paired with every row of the mapping
merge_corporacion_cruzado(df, corporaciones) ==
    IF df = <<>> \/ corporaciones = <<>> THEN <<>>
    ELSE [n \in 1..(Len(df) * Len(corporaciones)) |->
            LET r == df[((n - 1) \div Len(corporaciones)) + 1]
                c == corporaciones[((n - 1) % Len(corporaciones)) + 1]
            IN  [project_id |-> r.project_id, deployment_name |-> r.deployment_name,
                 sp_binomial |-> r.sp_binomial, photo_datetime |-> r.photo_datetime,
                 subproject_name |-> r.subproject_name,
                 project_name |-> r.project_name, Corporacion |-> c.Corporacion]]

RECURSIVE merge_corporacion(_, _)
\* main 257-261: data.merge(project_corporaciones, on='project_id', how='left')
merge_corporacion(df, corporaciones) ==
    IF df = <<>> THEN <<>>
    ELSE
      LET r == df[Len(df)]
          hits == SelectSeq(corporaciones, LAMBDA c : c.project_id = r.project_id)
          fila(car) ==
              [project_id |-> r.project_id, deployment_name |-> r.deployment_name,
               sp_binomial |-> r.sp_binomial, photo_datetime |-> r.photo_datetime,
               subproject_name |-> r.subproject_name,
               project_name |-> r.project_name, Corporacion |-> car]
          filas == IF hits = <<>> THEN << fila(NaN) >>
                   ELSE [n \in 1..Len(hits) |-> fila(hits[n].Corporacion)]
      IN  merge_corporacion(SubSeq(df, 1, Len(df) - 1), corporaciones) \o filas

\* main 293-296: photo_date, the date part of photo_datetime
crear_photo_date(df) ==
    [i \in 1..Len(df) |->
       [project_id |-> df[i].project_id, deployment_name |-> df[i].deployment_name,
        sp_binomial |-> df[i].sp_binomial, photo_datetime |-> df[i].photo_datetime,
        subproject_name |-> df[i].subproject_name,
        project_name |-> df[i].project_name, Corporacion |-> df[i].Corporacion,
        photo_date |-> df[i].photo_datetime]]

\* The steps of main() in the order of its text.
Pasos ==
    << "PrepararEntorno", "Load", "Clean", "Enrich", "MergeDeployments",
       "FilterSubproject", "FilterDates", "MergeProjects", "Geocode",
       "FinalizePerRow", "Export", "Validate" >>

PosicionDe(paso) == CHOOSE n \in 1..Len(Pasos) : Pasos[n] = paso

\* mutant: the final preparation of the rows is passed over
siguiente_sin_finalizar(paso) ==
    IF paso = "Geocode" THEN "Export"
    ELSE IF PosicionDe(paso) = Len(Pasos) THEN "retornado"
    ELSE Pasos[PosicionDe(paso) + 1]

\* the step that follows paso when paso does not return
siguiente(paso) ==
    IF PosicionDe(paso) = Len(Pasos) THEN "retornado"
    ELSE Pasos[PosicionDe(paso) + 1]

\* mutant: an empty table does not stop the run
empty_nunca(df) == FALSE

\* DataFrame.empty, the test of lines 167, 220 and 232
empty(df) == df = <<>>

\* the bookkeeping shared by the steps: the step is recorded and main
\* either goes on to the next step or returns False
Avanza(paso) ==
    /\ pc = paso
    /\ etapas' = Append(etapas, paso)
    /\ pc' = siguiente(paso)
    /\ UNCHANGED <<retorno, exit_status>>

ReturnFalse(paso) ==
    /\ pc = paso
    /\ etapas' = Append(etapas, paso)
    /\ pc' = "retornado"
    /\ retorno' = <<FALSE>>
    /\ UNCHANGED exit_status

\* lines 110-135: the .parquet files of the output directory are removed
PrepararEntorno ==
    /\ Avanza("PrepararEntorno")
    /\ parquets' = {}
    /\ UNCHANGED <<varsValidar, images, consola, varsFechas, varsGeo,
                   projects, entorno, resultado>>

\* lines 139-170: the reference tables are read, then the image files
Load ==
    /\ IF ~entorno.referencias THEN ReturnFalse("Load")
       ELSE IF ~entorno.imagenes \/ empty(images) THEN ReturnFalse("Load")
       ELSE Avanza("Load")
    /\ UNCHANGED <<varsValidar, images, consola, varsFechas, varsGeo, varsExport>>

\* lines 173-189
Clean ==
    /\ Avanza("Clean")
    /\ images' = limpiar_registros_cv(procesar_timestamps_tabla(images))
    /\ UNCHANGED <<varsValidar, consola, varsFechas, varsGeo, varsExport>>

\* lines 191-206; the two constant administrative columns are left out
Enrich ==
    /\ Avanza("Enrich")
    /\ images' = crear_nombre_cientifico(images)
    /\ UNCHANGED <<varsValidar, consola, varsFechas, varsGeo, varsExport>>

\* lines 208-212
MergeDeployments ==
    /\ Avanza("MergeDeployments")
    /\ data' = merge_images_deployments(images, deployments)
    /\ UNCHANGED <<varsValidar, varsTimestamps, data_previas, varsGeo, varsExport>>

\* lines 214-223
FilterSubproject ==
    /\ pc = "FilterSubproject"
    /\ data' = filtrar_por_subproject_tabla(data)
    /\ IF empty(filtrar_por_subproject_tabla(data))
       THEN ReturnFalse("FilterSubproject")
       ELSE Avanza("FilterSubproject")
    /\ UNCHANGED <<varsValidar, varsTimestamps, data_previas, varsGeo, varsExport>>

\* lines 225-234
FilterDates ==
    /\ pc = "FilterDates"
    /\ data' = filtrar_fechas_tabla(data)
    /\ IF empty(filtrar_fechas_tabla(data))
       THEN ReturnFalse("FilterDates")
       ELSE Avanza("FilterDates")
    /\ UNCHANGED <<varsValidar, varsTimestamps, data_previas, varsGeo, varsExport>>

\* lines 236-239
MergeProjects ==
    /\ Avanza("MergeProjects")
    /\ data' = merge_with_projects(data, projects)
    /\ UNCHANGED <<varsValidar, varsTimestamps, data_previas, varsGeo, varsExport>>

\* lines 242-264
Geocode ==
    /\ Avanza("Geocode")
    /\ project_corporaciones' =
         <<asignar_corporacion_geografica(deployments, shapefile)>>
    /\ data' = merge_corporacion(data,
                 asignar_corporacion_geografica(deployments, shapefile))
    /\ UNCHANGED <<varsValidar, varsTimestamps, data_previas, deployments,
                   shapefile, varsExport>>

\* lines 267-321
FinalizePerRow ==
    /\ Avanza("FinalizePerRow")
    /\ data' = crear_photo_date(data)
    /\ UNCHANGED <<varsValidar, varsTimestamps, data_previas, varsGeo, varsExport>>

\* lines 325-342: `if not resultado` tests the dict for emptiness
Export ==
    /\ pc = "Export"
    /\ LET r == generar_todas_las_tablas(data, deployments, projects, entorno.fallas)
       IN  /\ resultado' = <<r.resultados>>
           /\ parquets' = escribir(parquets, r.archivos)
           /\ IF DOMAIN r.resultados = {} THEN ReturnFalse("Export")
              ELSE Avanza("Export")
    /\ deployments' = df_deployments_despues(deployments)
    /\ UNCHANGED <<varsValidar, varsTimestamps, varsFechas, shapefile,
                   project_corporaciones, projects, entorno>>

\* lines 345-392: the three files are validated, the outcomes are not read,
\* and main returns True
Validate ==
    /\ pc = "Validate"
    /\ etapas' = Append(etapas, "Validate")
    /\ pc' = siguiente("Validate")
    /\ retorno' = <<TRUE>>
    /\ UNCHANGED <<varsValidar, varsTimestamps, varsFechas, varsGeo, varsExport,
                   exit_status>>

\* lines 399-400: main() is called and its value dropped; the interpreter
\* ends with status 0
Salir ==
    /\ pc = "retornado"
    /\ pc' = "terminado"
    /\ exit_status' = <<0>>
    /\ UNCHANGED <<varsValidar, varsTimestamps, varsFechas, varsGeo, varsExport,
                   etapas, retorno>>

MaxImagenes == 2    \* most rows of the images table of a run

NoCV == Str(<<"No CV Result">>)

ImageRows ==
    { [project_id |-> 1, deployment_id |-> d, genus |-> g,
       species |-> Str(<<"s">>), timestamp |-> ts] :
        <<d, g, ts>> \in {1, 2} \X {Str(<<"g">>), NoCV}
                          \X { RawTs("Y-M-D H:M:S", 1, 1, 2019),
                               RawTs("Y-M-D H:M:S", 6, 1, 2024) } }
      \cup { [project_id |-> 2, deployment_id |-> 2, genus |-> Str(<<"g">>),
              species |-> Str(<<"s">>),
              timestamp |-> RawTs("Y-M-D H:M:S", 6, 1, 2024)],
             [project_id |-> 1, deployment_id |-> 1, genus |-> Str(<<"g">>),
              species |-> Str(<<"s">>),
              timestamp |-> RawTs("x/x/Y H:M", 6, 1, 2024)] }

ImageTables == UNION { [1..n -> ImageRows] : n \in 0..MaxImagenes }

Despliegue(d, p, lon, lat, sub) ==
    [deployment_id |-> d, project_id |-> p, longitude |-> lon, latitude |-> lat,
     subproject_name |-> sub]

MainDeployments ==
    { << Despliegue(1, 1, Num(0), Num(0), Code_2025_1) >>,
      << Despliegue(1, 1, Num(0), Num(0), Code_2025_1),
         Despliegue(2, 1, NaN, Num(0), Code_2019_1) >>,
      << Despliegue(1, 1, Num(0), Num(0), Code_2025_1),
         Despliegue(2, 2, Num(1000), Num(0), Code_2025_1) >>,
      << Despliegue(1, 1, NaN, Num(0), Code_2025_1_2) >>,
      << Despliegue(1, 1, Num(0), Num(0), Code_padded),
         Despliegue(2, 1, Num(0), Num(0), Code_sup2) >> }

MainShapefiles ==
    { [existe |-> FALSE],
      [existe |-> TRUE, legible |-> FALSE],
      [existe |-> TRUE, legible |-> TRUE, NOMBRE_CAR |-> FALSE],
      [existe |-> TRUE, legible |-> TRUE, NOMBRE_CAR |-> TRUE,
       gdf_cars |-> <<Poligono(CarA, {P00}), Poligono(CarB, {P10})>>] }

MainEntornos ==
    { [referencias |-> r, imagenes |-> i, fallas |-> f] :
        <<r, i, f>> \in BOOLEAN \X BOOLEAN
                         \X { {}, {"deployments"},
                              {Tablas[n] : n \in 1..Len(Tablas)} } }

InitMain ==
    /\ images \in ImageTables
    /\ deployments \in MainDeployments
    /\ projects = << [project_id |-> 1, project_name |-> Str(<<"P">>)] >>
    /\ shapefile \in MainShapefiles
    /\ entorno \in MainEntornos
    /\ parquets \in { {}, {[nombre |-> "observations", tabla |-> <<>>]} }
    /\ data = <<>>
    /\ data_previas = <<>>
    /\ consola = <<>>
    /\ project_corporaciones = <<>>
    /\ resultado = <<>>
    /\ pc = Pasos[1]
    /\ etapas = <<>>
    /\ retorno = <<>>
    /\ exit_status = <<>>
    /\ ValidarIdle

NextMain ==
    \/ PrepararEntorno
    \/ Load
    \/ Clean
    \/ Enrich
    \/ MergeDeployments
    \/ FilterSubproject
    \/ FilterDates
    \/ MergeProjects
    \/ Geocode
    \/ FinalizePerRow
    \/ Export
    \/ Validate
    \/ Salir

SpecMain == InitMain /\ [][NextMain]_vars

(* Claims about main() *)

Ejecutada(paso) == \E n \in 1..Len(etapas) : etapas[n] = paso

UltimaEtapa == etapas[Len(etapas)]

\* main() has returned
Retornado == pc \in {"retornado", "terminado"}

\* the polygon dataset is missing, unreadable or lacks NOMBRE_CAR
Degradado == ~ShapefileUtil

\* C15: when the polygon dataset is missing, cannot be read or lacks
\* NOMBRE_CAR, the assigner returns a table with a null jurisdiction for
\* every project_id of the deployments table, every observation gets a
\* null jurisdiction, and main does not return before the export has run.
C15_DegradedContinues ==
    (Degradado /\ Ejecutada("Geocode")) =>
      /\ project_corporaciones # <<>>
      /\ \A i \in 1..Len(deployments) : TieneEntrada(deployments[i].project_id)
      /\ \A n \in 1..Len(Asignaciones) : Asignaciones[n].Corporacion = None
      /\ \A i \in 1..Len(data) : pd_isna(data[i].Corporacion)
      /\ retorno # <<FALSE>>
      /\ Retornado => (Ejecutada("Export") /\ resultado # <<>>)

\* a run without polygon dataset over deployments of two projects that
\* has exported its tables
C15_Witness ==
    /\ Degradado
    /\ Ejecutada("Export")
    /\ Len(Asignaciones) = 2
    /\ \E f \in parquets : f.nombre = "observations"
    /\ retorno = <<TRUE>>

\* the stages in the order the claim gives them
OrdenDeEtapas ==
    << "Load", "Clean", "Enrich", "MergeDeployments", "FilterSubproject",
       "FilterDates", "MergeProjects", "Geocode", "FinalizePerRow", "Export",
       "Validate" >>

\* the stages a run has executed, without the preparation of the output
\* directory that precedes Load
EtapasEjecutadas == SelectSeq(etapas, LAMBDA e : e # "PrepararEntorno")

\* C16: the stages a run has executed are an initial part of Load, Clean,
\* Enrich, Merge (deployments, subproject filter, date filter, projects),
\* Geocode, FinalizePerRow, Export, Validate, so none is skipped, reordered
\* or repeated; a run that reaches Validate has executed all of them.
C16_StagesInOrder ==
    /\ Len(EtapasEjecutadas) <= Len(OrdenDeEtapas)
    /\ \A n \in 1..Len(EtapasEjecutadas) : EtapasEjecutadas[n] = OrdenDeEtapas[n]
    /\ Ejecutada("Validate") => EtapasEjecutadas = OrdenDeEtapas

\* a run that has executed every stage and returned True
C16_Witness ==
    /\ pc = "terminado"
    /\ retorno = <<TRUE>>
    /\ EtapasEjecutadas = OrdenDeEtapas

\* main has returned False without geocoding, exporting or validating and
\* without writing a table
Detenido ==
    /\ Retornado
    /\ retorno = <<FALSE>>
    /\ ~Ejecutada("Geocode") /\ ~Ejecutada("Export") /\ ~Ejecutada("Validate")
    /\ project_corporaciones = <<>>
    /\ resultado = <<>>
    /\ parquets = {}

\* C17: when a reference file cannot be read, or the dataset is empty after
\* Load, after the subproject filter or after the date filter, main returns
\* False at that step: no later stage runs and no table is written.
C17_FatalHalts ==
    /\ (etapas # <<>> /\ UltimaEtapa = "Load"
          /\ (~entorno.referencias \/ ~entorno.imagenes \/ images = <<>>))
         => Detenido
    /\ (etapas # <<>> /\ UltimaEtapa = "FilterSubproject" /\ data = <<>>)
         => Detenido
    /\ (etapas # <<>> /\ UltimaEtapa = "FilterDates" /\ data = <<>>)
         => Detenido
    /\ Ejecutada("Geocode") =>
         /\ entorno.referencias /\ entorno.imagenes
         /\ data # <<>>

\* a run loaded its images, lost every record in the date filter and ended
C17_Witness ==
    /\ pc = "terminado"
    /\ UltimaEtapa = "FilterDates"
    /\ images # <<>>
    /\ data = <<>>
    /\ Detenido

\* C18: the process ends with a failure status whenever main halted on a
\* fatal condition and with status 0 only when the run completed.
C18_ExitSignal ==
    pc = "terminado" => (exit_status = <<0>> <=> retorno = <<TRUE>>)

\* what holds instead: the process ends with status 0 whatever main returned
C18_AlwaysZero ==
    pc = "terminado" => exit_status = <<0>>

(* Claims about the projects table *)

\* the projects table that was written
ProjectsParquet ==
    (CHOOSE f \in parquets : f.nombre = "projects").tabla

\* the number of rows of the projects table for project p
FilasDeProyecto(p) ==
    Cardinality({i \in 1..Len(ProjectsParquet) : ProjectsParquet[i].project_id = p})

\* project p has an observation among those handed to the export
ConObservaciones(p) == \E i \in 1..Len(data) : data[i].project_id = p

\* project_id is unique in the projects input
ProyectosUnicos ==
    \A i, j \in 1..Len(projects) :
      projects[i].project_id = projects[j].project_id => i = j

\* C21: with project_id unique in the projects input, the projects table
\* has exactly one row for each project_id that has a retained observation
\* and no row for any other project.
C21_OneRowPerProjectWithData ==
    (Exportado /\ Escrito("projects") /\ ProyectosUnicos) =>
      /\ \A p \in {1, 2} :
            FilasDeProyecto(p) = IF ConObservaciones(p) THEN 1 ELSE 0
      /\ \A i \in 1..Len(ProjectsParquet) :
            ProjectsParquet[i].project_id \in {1, 2}

\* two observations of project 1, none of project 2 which the projects
\* input lists: one row, for project 1
C21_Witness ==
    /\ Exportado /\ Escrito("projects")
    /\ Len(projects) = 2
    /\ Len(data) = 2
    /\ ~ConObservaciones(2)
    /\ FilasDeProyecto(1) = 1 /\ FilasDeProyecto(2) = 0

\* C23: no step of main changes the deployments or the projects table: in
\* every state of a run, completed or halted, both are what they were when
\* they were loaded.
C23_ReferenceTablesUntouched ==
    [][deployments' = deployments /\ projects' = projects]_vars

\* a completed run that wrote the deployments file, with its deployment_name
\* column, from a deployments table that has no such column
C23_Witness ==
    /\ retorno = <<TRUE>>
    /\ \E f \in parquets :
          /\ f.nombre = "deployments"
          /\ f.tabla # <<>>
          /\ \A i \in 1..Len(f.tabla) : "deployment_name" \in DOMAIN f.tabla[i]
    /\ \A i \in 1..Len(deployments) : "deployment_name" \notin DOMAIN deployments[i]

RECURSIVE EsSubsecuencia(_, _)
\* a is b with some entries left out
EsSubsecuencia(a, b) ==
    IF a = <<>> THEN TRUE
    ELSE IF b = <<>> THEN FALSE
    ELSE IF Head(a) = Head(b) THEN EsSubsecuencia(Tail(a), Tail(b))
    ELSE EsSubsecuencia(a, Tail(b))

\* the columns of a row that the filters do not write
Identidad(df) ==
    [i \in 1..Len(df) |->
       <<df[i].project_id, df[i].deployment_name, df[i].sp_binomial,
         df[i].subproject_name>>]

ImagenIdentificada(r) ==
    /\ ~pd_isna(r.genus) /\ ~pd_isna(r.species)
    /\ r.genus.s \notin {<<"No CV Result">>, <<"Unknown">>}
    /\ r.species.s \notin {<<"No CV Result">>, <<"Unknown">>}

\* C24: the validator answers TRUE or FALSE on every code of the merged
\* table, each of the three cleaning steps ends normally with the table less
\* some rows (for the code filter exactly the rows with a rejected code), and
\* the run is halted at such a step only when the table it leaves is empty.
C24_RejectionsOnlyDropRows ==
    [][ /\ pc = "Clean" =>
             /\ pc' = "Enrich"
             /\ retorno' = retorno
             /\ [i \in 1..Len(images') |-> images'[i].timestamp]
                  = [i \in 1..Len(SelectSeq(images, ImagenIdentificada)) |->
                       SelectSeq(images, ImagenIdentificada)[i].timestamp]
        /\ pc = "FilterSubproject" =>
             /\ \A i \in 1..Len(data) :
                   validar_subproject_name(data[i].subproject_name) \in BOOLEAN
             /\ data' = SelectSeq(data, LAMBDA r :
                                    validar_subproject_name(r.subproject_name))
             /\ (retorno' = <<FALSE>>) <=> (data' = <<>>)
             /\ data' # <<>> => pc' = "FilterDates"
        /\ pc = "FilterDates" =>
             /\ EsSubsecuencia(Identidad(data'), Identidad(data))
             /\ (retorno' = <<FALSE>>) <=> (data' = <<>>)
             /\ data' # <<>> => pc' = "MergeProjects" ]_vars

\* a run of two identified images, one of them of the deployment whose code
\* has a superscript two as fourth character (str.isdigit accepts it, int()
\* raises the ValueError that the validator catches): that row is dropped and
\* the run goes on to the end with the other
C24_Witness ==
    /\ retorno = <<TRUE>>
    /\ Len(data) = 1
    /\ \E i \in 1..Len(deployments) : deployments[i].subproject_name = Code_sup2
    /\ \E i \in 1..Len(images) : images[i].deployment_id = 2
    /\ Len(images) = 2

\* the table the date filter receives, recomputed from the cleaned images
\* (images holds the column photo_datetime of the normalizer)
AntesDelFiltroDeFechas ==
    filtrar_por_subproject_tabla(merge_images_deployments(images, deployments))

\* the row passes the comparison when its capture date is the date the
\* normalizer produced for it
ConsistenteSegunNormalizador(r) ==
    LET year_subproject == to_numeric(str_slice4(r.subproject_name))
    IN  /\ ~pd_isna(r.photo_datetime)
        /\ ~pd_isna(year_subproject)
        /\ year_subproject.milli - 1000 * r.photo_datetime.year <= 1000

\* C25: the rows the date filter of the pipeline keeps are those whose
\* photo_datetime, as procesar_timestamps produced it, passes the comparison
\* with the event year, and they carry that photo_datetime.
C25_NormalizedDateCompared ==
    (etapas # <<>> /\ UltimaEtapa = "FilterDates") =>
      LET esperado == SelectSeq(AntesDelFiltroDeFechas, ConsistenteSegunNormalizador)
      IN  data = [i \in 1..Len(esperado) |->
                    [project_id |-> esperado[i].project_id,
                     deployment_name |-> esperado[i].deployment_name,
                     sp_binomial |-> esperado[i].sp_binomial,
                     photo_datetime |-> esperado[i].photo_datetime,
                     subproject_name |-> esperado[i].subproject_name]]

\* the event year of an accepted code: the four digits the validator read
AnioDelEvento(r) == int(SubSeq(strip(str(r.subproject_name)), 1, 4))

FilaAdmisible(r) ==
    /\ validar_subproject_name(r.subproject_name)
    /\ ~pd_isna(r.photo_datetime)
    /\ AnioDelEvento(r) - r.photo_datetime.year <= 1

\* C26: when main is at the export, and after it, every row of the
\* observations table has an accepted subproject_name, a photo_datetime and
\* an event year at most one year after the year of the capture, and so has
\* every row of the observations file.
C26_OnlyAdmissibleRowsExported ==
    (pc = "Export" \/ Ejecutada("Export")) =>
      /\ \A i \in 1..Len(data) : FilaAdmisible(data[i])
      /\ \A f \in parquets :
            f.nombre = "observations" =>
              \A i \in 1..Len(f.tabla) : FilaAdmisible(f.tabla[i])

\* the export has run and none of the three tables was written
TodasLasExportacionesFallaron ==
    /\ resultado # <<>>
    /\ \A t \in DOMAIN resultado[1] : ~resultado[1][t]

SinCorporacion(r) ==
    [project_id |-> r.project_id, deployment_name |-> r.deployment_name,
     sp_binomial |-> r.sp_binomial, photo_datetime |-> r.photo_datetime,
     subproject_name |-> r.subproject_name, project_name |-> r.project_name]

\* C29: the Geocode step leaves the observation rows as they were, each
\* with one more column: the jurisdiction the mapping gives to its project,
\* null for a project the mapping gives none; rows of one project carry the
\* same jurisdiction.
C29_OneJurisdictionPerProject ==
    [][ pc = "Geocode" =>
          LET mapa == project_corporaciones'[1]
          IN  /\ Len(data') = Len(data)
              /\ \A i \in 1..Len(data) :
                    /\ SinCorporacion(data'[i]) = data[i]
                    /\ \/ \E k \in 1..Len(mapa) :
                             /\ mapa[k].project_id = data[i].project_id
                             /\ mapa[k].Corporacion = data'[i].Corporacion
                       \/ /\ pd_isna(data'[i].Corporacion)
                          /\ \A k \in 1..Len(mapa) :
                                mapa[k].project_id # data[i].project_id
              /\ \A i, j \in 1..Len(data') :
                    data'[i].project_id = data'[j].project_id
                      => data'[i].Corporacion = data'[j].Corporacion ]_vars

\* after Geocode, two observations of two projects that lie in different
\* jurisdictions, each with the jurisdiction of its own project
C29_Witness ==
    /\ etapas # <<>> /\ UltimaEtapa = "Geocode"
    /\ Len(data) = 2
    /\ data[1].project_id # data[2].project_id
    /\ {data[1].Corporacion, data[2].Corporacion} = {CarA, CarB}

-----------------------------------------------------------------------------
(* The computer-vision clean-up on its own *)

MaxCV == 2    \* most rows of the table handed to limpiar_registros_cv

Taxones(nombre) ==
    {Str(<<nombre>>), NaN, None, Str(<<"No CV Result">>), Str(<<"Unknown">>)}

CVTables ==
    UNION { [1..n -> { [genus |-> g, species |-> e] :
                         <<g, e>> \in Taxones("g") \X Taxones("s") }] :
              n \in 0..MaxCV }
      \cup UNION { [1..n -> { [genus |-> g] : g \in Taxones("g") }] :
                     n \in 1..MaxCV }

InitCV ==
    /\ data \in CVTables
    /\ data_previas = <<>>
    /\ ValidarIdle /\ TimestampsIdle /\ GeoIdle /\ ExportIdle /\ MainIdle

LimpiarRegistrosCV ==
    /\ data_previas = <<>>
    /\ data' = limpiar_registros_cv(data)
    /\ data_previas' = <<data>>
    /\ UNCHANGED <<varsValidar, varsTimestamps, varsGeo, varsExport, varsMain>>

NextCV == LimpiarRegistrosCV

SpecCV == InitCV /\ [][NextCV]_vars

(* Claims about limpiar_registros_cv *)

Limpiado == data_previas # <<>>

\* the table has a genus and a species column
ConTaxonomia(df) ==
    \A i \in 1..Len(df) : {"genus", "species"} \subseteq DOMAIN df[i]

Marcadores == {Str(<<"No CV Result">>), Str(<<"Unknown">>)}

\* genus and species are both present and neither is a marker
Identificado(r) ==
    /\ r.genus.t = "str" /\ r.species.t = "str"
    /\ r.genus \notin Marcadores /\ r.species \notin Marcadores

\* C22: on a table with genus and species, the rows retained are exactly
\* those whose genus and species are both present and neither is
\* 'No CV Result' or 'Unknown', in their input order.
C22_ExactlyIdentifiedRetained ==
    (Limpiado /\ ConTaxonomia(data_previas[1])) =>
      data = SelectSeq(data_previas[1], Identificado)

\* a table with an identified row, then a row whose species is 'Unknown':
\* only the first is retained
C22_Witness ==
    /\ Limpiado
    /\ Len(data_previas[1]) = 2
    /\ ConTaxonomia(data_previas[1])
    /\ Identificado(data_previas[1][1])
    /\ data_previas[1][2].genus = Str(<<"g">>)
    /\ data_previas[1][2].species = Str(<<"Unknown">>)
    /\ data = <<data_previas[1][1]>>

-----------------------------------------------------------------------------
(* The two row filters on tables that may lack their columns *)

MaxAplicaciones == 2    \* most filter calls in a row on one table

\* tables with neither column, with one of the two, and with both
FramesDeFiltros ==
    FramesIncomplete
      \cup { OneColumnFrame("timestamp", c) :
               c \in UNION {[1..n -> {Garbage, None}] : n \in 0..MaxRows} }
      \cup { [columns |-> <<"photo_datetime", "subproject_name">>,
              dtypes |-> <<"datetime64", "object">>,
              index |-> RangeIndex(n),
              rows |-> [i \in 1..n |-> <<f[i], c[i]>>]] :
               <<n, f, c>> \in UNION { {n} \X [1..n -> {NaT, Dt(2019, 1, 1)}]
                                           \X [1..n -> {Code_2025_1, Code_2019_1}] :
                                       n \in 0..MaxRows } }

InitFiltros ==
    /\ data \in FramesDeFiltros
    /\ data_previas = <<>>
    /\ consola = <<>>
    /\ images = EmptyFrame
    /\ ValidarIdle /\ GeoIdle /\ ExportIdle /\ MainIdle

FiltrarPorSubprojectValido ==
    /\ Len(data_previas) < MaxAplicaciones
    /\ data' = filtrar_por_subproject_valido(data, "subproject_name")
    /\ data_previas' = Append(data_previas, data)
    /\ consola' = Append(consola, [msg |-> "filtrar_por_subproject_valido"])
    /\ UNCHANGED <<varsValidar, images, varsGeo, varsExport, varsMain>>

FiltrarFechasInconsistentes ==
    /\ Len(data_previas) < MaxAplicaciones
    /\ data' = filtrar_fechas_inconsistentes(data, "photo_datetime", "subproject_name")
    /\ data_previas' = Append(data_previas, data)
    /\ consola' = Append(consola, [msg |-> "filtrar_fechas_inconsistentes"])
    /\ UNCHANGED <<varsValidar, images, varsGeo, varsExport, varsMain>>

NextFiltros ==
    \/ FiltrarPorSubprojectValido
    \/ FiltrarFechasInconsistentes

SpecFiltros == InitFiltros /\ [][NextFiltros]_vars

(* Claims about the filters on a table without their column *)

\* the table the k-th call received and the table it returned
Recibido(k) == data_previas[k]
Devuelto(k) == IF k < Len(data_previas) THEN data_previas[k + 1] ELSE data

\* C27: a call of filtrar_por_subproject_valido on a table without
\* subproject_name, and a call of filtrar_fechas_inconsistentes on a table
\* without photo_datetime or without subproject_name, returns the table it
\* received: same rows, same columns, same index.
C27_AbsentColumnNoOp ==
    \A k \in 1..Len(data_previas) :
      /\ (/\ consola[k].msg = "filtrar_por_subproject_valido"
          /\ ~HasColumn(Recibido(k), "subproject_name"))
           => Devuelto(k) = Recibido(k)
      /\ (/\ consola[k].msg = "filtrar_fechas_inconsistentes"
          /\ \/ ~HasColumn(Recibido(k), "photo_datetime")
             \/ ~HasColumn(Recibido(k), "subproject_name"))
           => Devuelto(k) = Recibido(k)

\* both filters called, one after the other, on a table of two rows that has
\* photo_datetime and no subproject_name
C27_Witness ==
    /\ Len(data_previas) = 2
    /\ consola[1].msg = "filtrar_por_subproject_valido"
    /\ consola[2].msg = "filtrar_fechas_inconsistentes"
    /\ HasColumn(Recibido(1), "photo_datetime")
    /\ ~HasColumn(Recibido(1), "subproject_name")
    /\ Len(Recibido(1).rows) = 2
    /\ data = Recibido(1)

=============================================================================
